---------------------------- MODULE Spec2Model ----------------------------
(***************************************************************************)
(* Batch planning and batch processing of the bibliophage python server:   *)
(*   - pdf_outline_inspector.py : chapter selection and the outline-based  *)
(*     batch plan (analyze_outline_for_batching);                          *)
(*   - batch_size_calculator.py : the memory-based batch size;             *)
(*   - docling_batched.py       : convert_pdf_in_batches;                  *)
(*   - loading_service_implementation.py : load_pdf.                       *)
(*                                                                         *)
(* Encodings.  Python's None is the value None below (pages are 1-indexed, *)
(* so 0 is free).  A tuple (start, end, description) is a record with the  *)
(* fields start_page, end_page, description.  Memory amounts are dyadic    *)
(* rationals counted in eighths of a GB (exact as binary floats),          *)
(* memory_per_page_mb is counted in tenths of a MB and safety_margin in    *)
(* hundredths.                                                             *)
(***************************************************************************)
EXTENDS Integers, Sequences, FiniteSets, TLC

VARIABLES
    pc,              \* position of the function under analysis
    outline_items,   \* the outline: a sequence of [title, page, level]
    total_pages,     \* page count of the document
    batch_size,      \* max_batch_size / batch_size
    batches,         \* the batch plan: a sequence of batch ranges
    host_available,  \* psutil.virtual_memory().available of the host
    calc_in,         \* the arguments of calculate_batch_size
    calc_out,        \* what calculate_batch_size returned or raised
    calc_prev,       \* arguments and outcome of the call before, for comparison
    pdf,             \* the document: its page count and its table of contents
    use_smart_batching,
    outline_result,  \* what inspect_pdf_outline returned
    calls,           \* the calls made to the collaborators, in order
    engine_log,      \* what the conversion engine did with each range it was given
    batch_iter,      \* number of batches the loop has taken from the plan
    conv_result,     \* the loop's reference to the conversion result
    batch_markdown,  \* the loop's reference to the exported markdown
    exception,       \* the exception being handled
    stats,           \* the statistics dict of convert_pdf_in_batches
    output_file,     \* the blocks written to the output file
    flushed,         \* number of written blocks that are flushed to disk
    result,          \* what the function returned or raised
    processed_batches,     \* load_pdf: the list of batch results
    successful_batches,    \* load_pdf: counter
    failed_batches,        \* load_pdf: counter
    batch_config,          \* load_pdf: the dict calculate_batch_size returned
    documents_collection   \* the documents inserted into the database

planVars == <<outline_items, total_pages, batch_size, batches>>
calcVars == <<host_available, calc_in, calc_out, calc_prev>>
runVars == <<pdf, use_smart_batching, outline_result, calls, engine_log, batch_iter,
             conv_result, batch_markdown, exception, stats, output_file, flushed,
             result>>
loadVars == <<processed_batches, successful_batches, failed_batches, batch_config,
              documents_collection>>
vars == <<pc, planVars, calcVars, runVars, loadVars>>

\* a variable that a function does not use yet
Unset == <<>>

(***************************************************************************)
(* Bounds of the model.                                                    *)
(***************************************************************************)
MaxPages == 4
MaxBatch == 3
MaxEntries == 3
MaxRam == 15       \* largest supplied available_ram_gb, in eighths of a GB
MaxHost == 5       \* largest probed host memory, in halves of a GB
MaxMinBatch == 2   \* largest min_batch_size
RunMaxPages == 3   \* largest page count of a converted document
RunMaxBatch == 2   \* largest batch_size of a conversion run
RunMaxEntries == 1 \* longest table of contents of a converted document
RunMaxHost == 2    \* probed host memory of a load_pdf run: 1.5 GB plus up to this many eighths
ConcMaxPages == 2  \* largest page count of a document loaded concurrently with another

None == 0

Min(a, b) == IF a < b THEN a ELSE b
Max(a, b) == IF a > b THEN a ELSE b

(***************************************************************************)
(* pdf_outline_inspector.py                                                *)
(***************************************************************************)
\* [item for item in outline_items if item['level'] == lvl and item['page'] is not None]
RECURSIVE ItemsAtLevel(_, _)
ItemsAtLevel(items, lvl) ==
    IF items = <<>> THEN <<>>
    ELSE IF Head(items).level = lvl /\ Head(items).page # None
         THEN <<Head(items)>> \o ItemsAtLevel(Tail(items), lvl)
         ELSE ItemsAtLevel(Tail(items), lvl)

\* insertion of one item into a page-sorted list, after the items of the same page
RECURSIVE InsertByPage(_, _)
InsertByPage(sorted, item) ==
    IF sorted = <<>> THEN <<item>>
    ELSE IF item.page < Head(sorted).page
         THEN <<item>> \o sorted
         ELSE <<Head(sorted)>> \o InsertByPage(Tail(sorted), item)

\* sorted(chapters, key=lambda x: x['page'])  (a stable sort)
RECURSIVE SortedByPage(_)
SortedByPage(items) ==
    IF items = <<>> THEN <<>>
    ELSE InsertByPage(SortedByPage(SubSeq(items, 1, Len(items) - 1)), items[Len(items)])

\* a selection that takes the entries of both levels together
get_chapters_of_both_levels(items) ==
    SortedByPage(ItemsAtLevel(items, 0) \o ItemsAtLevel(items, 1))

get_top_level_chapters(items) ==
    LET chapters0 == ItemsAtLevel(items, 0)
        chapters  == IF chapters0 = <<>> THEN ItemsAtLevel(items, 1) ELSE chapters0
    IN  SortedByPage(chapters)

\* " + ".join(c['title'] for c in current_chapters)
RECURSIVE JoinTitles(_)
JoinTitles(chapters) ==
    IF chapters = <<>> THEN ""
    ELSE IF Len(chapters) = 1 THEN chapters[1].title
    ELSE chapters[1].title \o " + " \o JoinTitles(Tail(chapters))

Batch(start, end, desc) == [start_page |-> start, end_page |-> end, description |-> desc]

\* a split whose sub-ranges end one page too late
RECURSIVE SplitChapterOffByOne(_, _, _, _)
SplitChapterOffByOne(sub_start, chapter_end, max_batch_size, title) ==
    IF sub_start >= chapter_end + 1 THEN <<>>
    ELSE LET sub_end == Min(sub_start + max_batch_size, chapter_end)
         IN  <<Batch(sub_start, sub_end, title \o " (part)")>>
             \o SplitChapterOffByOne(sub_start + max_batch_size, chapter_end,
                                     max_batch_size, title)

\* for sub_start in range(chapter_start, chapter_end + 1, max_batch_size): ...
RECURSIVE SplitChapter(_, _, _, _)
SplitChapter(sub_start, chapter_end, max_batch_size, title) ==
    IF sub_start >= chapter_end + 1 THEN <<>>
    ELSE LET sub_end == Min(sub_start + max_batch_size - 1, chapter_end)
         IN  <<Batch(sub_start, sub_end, title \o " (part)")>>
             \o SplitChapter(sub_start + max_batch_size, chapter_end, max_batch_size, title)

\* a test that also turns away a span equal to the limit
ExceedsBatchAtLimit(current_size, max_batch_size) == current_size >= max_batch_size

\* if current_size > max_batch_size
ExceedsBatch(current_size, max_batch_size) == current_size > max_batch_size

\* the body of "for i, chapter in enumerate(chapters)" from index i (1-based here)
\* on, followed by the final flush
RECURSIVE ChapterLoop(_, _, _, _, _, _, _)
ChapterLoop(chapters, i, tp, max_batch_size, acc, current_start, current_chapters) ==
    IF i > Len(chapters)
    THEN IF current_chapters # <<>>
         THEN Append(acc, Batch(current_start, tp, JoinTitles(current_chapters)))
         ELSE acc
    ELSE
      LET chapter       == chapters[i]
          chapter_start == chapter.page
          chapter_end   == IF i + 1 <= Len(chapters) THEN chapters[i + 1].page - 1 ELSE tp
          chapter_size  == chapter_end - chapter_start + 1
      IN
      IF chapter_size > max_batch_size
      THEN LET finalised == IF current_chapters # <<>>
                            THEN Append(acc, Batch(current_start, chapter_start - 1,
                                                   JoinTitles(current_chapters)))
                            ELSE acc
               split     == SplitChapter(chapter_start, chapter_end, max_batch_size,
                                       chapter.title)
           IN  ChapterLoop(chapters, i + 1, tp, max_batch_size, finalised \o split,
                           chapter_end + 1, <<>>)
      ELSE LET current_size == chapter_end - current_start + 1
           IN  IF ExceedsBatch(current_size, max_batch_size)
               THEN ChapterLoop(chapters, i + 1, tp, max_batch_size,
                                Append(acc, Batch(current_start, chapter_start - 1,
                                                  JoinTitles(current_chapters))),
                                chapter_start, <<chapter>>)
               ELSE ChapterLoop(chapters, i + 1, tp, max_batch_size, acc,
                                current_start, Append(current_chapters, chapter))

\* a partitioner that takes its markers from level 0 only
analyze_outline_top_level_only(items, tp, max_batch_size) ==
    IF items = <<>> THEN <<>>
    ELSE LET chapters == SortedByPage(ItemsAtLevel(items, 0))
         IN  IF chapters = <<>> THEN <<>>
             ELSE ChapterLoop(chapters, 1, tp, max_batch_size, <<>>, 1, <<>>)

analyze_outline_for_batching(items, tp, max_batch_size) ==
    IF items = <<>> THEN <<>>
    ELSE LET chapters == get_top_level_chapters(items)
         IN  IF chapters = <<>> THEN <<>>
             ELSE ChapterLoop(chapters, 1, tp, max_batch_size, <<>>, 1, <<>>)

(***************************************************************************)
(* batch_size_calculator.py                                                *)
(* GB amounts are counted in eighths of a GB, memory_per_page_mb in tenths *)
(* of a MB, safety_margin in hundredths; rounded GB outputs in hundredths  *)
(* (round(x, 2)) and in tenths (the .1f format).                           *)
(***************************************************************************)
EighthsPerGB == 8
MBPerEighth == 128      \* 1024 MB / 8
NoRam == -1             \* available_ram_gb = None

\* a rounding that always goes up to the next integer
RoundUp(num, den) == IF num % den = 0 THEN num \div den ELSE num \div den + 1

\* the nearest integer to num / den, ties to the even one (round, format)
RoundHalfEven(num, den) ==
    LET q == num \div den
        r == num % den
    IN  IF 2 * r < den THEN q
        ELSE IF 2 * r > den THEN q + 1
        ELSE IF q % 2 = 0 THEN q ELSE q + 1

\* f"{x:.1f}" of an amount of eighths of a GB, as tenths
Format1f(gb8) == RoundHalfEven(gb8 * 10, EighthsPerGB)

\* round(x, 2) of an amount of eighths of a GB, as hundredths
Round2(gb8) == RoundHalfEven(gb8 * 100, EighthsPerGB)

\* a probe that forgets the 1 GB system reserve
get_available_memory_no_reserve(host) == Max(host, EighthsPerGB \div 2)

\* a probe whose floor is 1 GB instead of 0.5 GB
get_available_memory_floor_one(host) == Max(host - 1 * EighthsPerGB, EighthsPerGB)

\* max((mem.available / 1024**3) - 1.0, 0.5)
get_available_memory_gb(host) == Max(host - 1 * EighthsPerGB, EighthsPerGB \div 2)

\* a test that lets an available memory equal to the overhead through
InsufficientRamStrict(usable_gb) == usable_gb < 0

\* if usable_gb <= 0: raise ValueError
InsufficientRam(usable_gb) == usable_gb <= 0

\* a clamp that forgets the lower limit
ClampNoLowerLimit(safe_max_batch_size, min_batch_size, max_batch_size) ==
    Min(max_batch_size, safe_max_batch_size)

\* a clamp that answers the wrong limit above max_batch_size
ClampWrongLimit(safe_max_batch_size, min_batch_size, max_batch_size) ==
    IF safe_max_batch_size > max_batch_size THEN min_batch_size
    ELSE Max(safe_max_batch_size, min_batch_size)

\* max( min( max_batch_size, safe_max_batch_size), min_batch_size )
Clamp(safe_max_batch_size, min_batch_size, max_batch_size) ==
    Max(Min(max_batch_size, safe_max_batch_size), min_batch_size)

calculate_batch_size(in, host) ==
    LET available_ram_gb == IF in.available_ram_gb = NoRam
                            THEN get_available_memory_gb(host)
                            ELSE in.available_ram_gb
        usable_gb == available_ram_gb - in.overhead_gb
    IN  IF InsufficientRam(usable_gb)
        THEN [raised |-> "ValueError",
              available |-> Format1f(available_ram_gb),
              required |-> Format1f(in.overhead_gb)]
        ELSE
          LET usable_mb == usable_gb * MBPerEighth
              \* safe_max_pages = usable_mb / memory_per_page_mb * safety_margin
              \*                = safe_num / safe_den
              safe_num == usable_mb * 10 * in.safety_margin
              safe_den == in.memory_per_page_mb * 100
              safe_max_batch_size == safe_num \div safe_den
              recommended_batch_size ==
                  Clamp(safe_max_batch_size, in.min_batch_size, in.max_batch_size)
              \* peak_memory_gb in GB = peak_num / peak_den
              peak_num == in.overhead_gb * 1280
                          + recommended_batch_size * in.memory_per_page_mb
              peak_den == 10240
          IN  [raised |-> "",
               recommended_batch_size |-> recommended_batch_size,
               peak_memory_gb |-> RoundHalfEven(peak_num * 100, peak_den),
               available_ram_gb |-> Round2(available_ram_gb),
               memory_per_page_mb |-> in.memory_per_page_mb,
               usable_ram_gb |-> Round2(usable_gb),
               safety_margin |-> in.safety_margin]

(***************************************************************************)
(* docling_batched.py, lines 84-90: the fixed-size plan                    *)
(***************************************************************************)
PagesLabel(start, end) == "Pages " \o ToString(start) \o "-" \o ToString(end)

\* a fixed-size loop that forgets to shorten the last range to total_pages
RECURSIVE FixedLoopUnclamped(_, _, _)
FixedLoopUnclamped(i, tp, bs) ==
    IF i >= tp THEN <<>>
    ELSE <<Batch(i + 1, i + bs, PagesLabel(i + 1, i + bs))>>
         \o FixedLoopUnclamped(i + bs, tp, bs)

\* for i in range(0, total_pages, batch_size): ...
RECURSIVE FixedLoop(_, _, _)
FixedLoop(i, tp, bs) ==
    IF i >= tp THEN <<>>
    ELSE LET start == i + 1
             end   == Min(i + bs, tp)
         IN  <<Batch(start, end, PagesLabel(start, end))>> \o FixedLoop(i + bs, tp, bs)

FixedSizeBatches(tp, bs) == FixedLoop(0, tp, bs)

\* no load_pdf request is in progress
NoLoad ==
    /\ processed_batches = Unset /\ successful_batches = Unset
    /\ failed_batches = Unset /\ batch_config = Unset /\ documents_collection = Unset

\* no document run is in progress
NoRun ==
    /\ pdf = Unset /\ use_smart_batching = Unset /\ outline_result = Unset
    /\ calls = Unset /\ engine_log = Unset /\ batch_iter = Unset
    /\ conv_result = Unset /\ batch_markdown = Unset /\ exception = Unset
    /\ stats = Unset /\ output_file = Unset /\ flushed = Unset /\ result = Unset
    /\ NoLoad

(***************************************************************************)
(* The two partitioners applied to bounded inputs.                         *)
(***************************************************************************)
Titles == <<"A", "B", "C", "D", "E">>

\* the entries a document of tp pages can carry at outline position k
Entry(k, tp) == {[title |-> Titles[k], page |-> p, level |-> l] :
                    p \in {None} \cup (1 .. tp), l \in {0, 1}}

\* the outlines of exactly n entries
RECURSIVE OutlinesOfLen(_, _)
OutlinesOfLen(n, tp) ==
    IF n = 0 THEN {<<>>}
    ELSE {Append(o, e) : o \in OutlinesOfLen(n - 1, tp), e \in Entry(n, tp)}

Outlines(tp) == UNION {OutlinesOfLen(n, tp) : n \in 0 .. MaxEntries}

\* chapters at pages 1, 6 and 11
ScenarioOutline ==
    <<[title |-> "Chapter 1", page |-> 1, level |-> 0],
      [title |-> "Chapter 2", page |-> 6, level |-> 0],
      [title |-> "Chapter 3", page |-> 11, level |-> 0]>>

InitPartition ==
    /\ pc = "input"
    /\ \/ /\ total_pages \in 1 .. MaxPages
          /\ batch_size \in 1 .. MaxBatch
          /\ outline_items \in Outlines(total_pages)
       \/ \* the three chapters in a document of 15 pages, at most 10 a batch
          /\ total_pages = 15
          /\ batch_size = 10
          /\ outline_items = ScenarioOutline
    /\ batches = <<>>
    /\ host_available = Unset /\ calc_in = Unset /\ calc_out = Unset /\ calc_prev = Unset
    /\ NoRun

AnalyzeOutline ==
    /\ pc = "input"
    /\ batches' = analyze_outline_for_batching(outline_items, total_pages, batch_size)
    /\ pc' = "outline"
    /\ UNCHANGED <<outline_items, total_pages, batch_size, calcVars, runVars, loadVars>>

FixedSize ==
    /\ pc = "input"
    /\ batches' = FixedSizeBatches(total_pages, batch_size)
    /\ pc' = "fixed"
    /\ UNCHANGED <<outline_items, total_pages, batch_size, calcVars, runVars, loadVars>>

NextPartition == AnalyzeOutline \/ FixedSize

SpecPartition == InitPartition /\ [][NextPartition]_vars

(***************************************************************************)
(* calculate_batch_size applied to bounded arguments, and applied again    *)
(* with more available memory or less memory per page.                     *)
(***************************************************************************)
HostMemory == {h * (EighthsPerGB \div 2) : h \in 0 .. MaxHost}

\* 40.0, 67.8 (the default) and 100.0 MB per page
PageMemory == {400, 678, 1000}

CalcArguments ==
    [available_ram_gb   : {NoRam} \cup (0 .. MaxRam),
     memory_per_page_mb : PageMemory,
     overhead_gb        : {0, 4, 8},
     safety_margin      : {50, 80, 100},
     min_batch_size     : 1 .. MaxMinBatch,
     max_batch_size     : {1, 2, 4, 8, 500}]

ValidArguments == {a \in CalcArguments : a.min_batch_size <= a.max_batch_size}

\* the available memory the call works with
AvailableOf(in, host) ==
    IF in.available_ram_gb = NoRam THEN get_available_memory_gb(host)
    ELSE in.available_ram_gb

\* calculate_batch_size(available_ram_gb=4.0) with the defaults of its other
\* parameters: 67.8 MB per page, 0.5 GB overhead, margin 0.8, limits 1 and 500
ScenarioArguments ==
    [available_ram_gb |-> 4 * EighthsPerGB, memory_per_page_mb |-> 678,
     overhead_gb |-> EighthsPerGB \div 2, safety_margin |-> 80,
     min_batch_size |-> 1, max_batch_size |-> 500]

InitCalc ==
    /\ pc = "input"
    /\ host_available \in HostMemory
    /\ calc_in \in ValidArguments \cup {ScenarioArguments}
    /\ calc_out = Unset
    /\ calc_prev = Unset
    /\ outline_items = Unset /\ total_pages = Unset
    /\ batch_size = Unset /\ batches = Unset
    /\ NoRun

Calculate ==
    /\ pc = "input"
    /\ calc_out' = calculate_batch_size(calc_in, host_available)
    /\ pc' = "calculated"
    /\ UNCHANGED <<host_available, calc_in, calc_prev, planVars, runVars, loadVars>>

\* a second call that differs from the first in the available memory (more of
\* it) or in memory_per_page_mb (less of it)
Recalculate ==
    /\ pc = "calculated"
    /\ \/ \E ram \in 0 .. MaxRam :
             /\ calc_in.available_ram_gb # NoRam
             /\ ram > calc_in.available_ram_gb
             /\ calc_in' = [calc_in EXCEPT !.available_ram_gb = ram]
             /\ host_available' = host_available
       \/ \E host \in HostMemory :
             /\ calc_in.available_ram_gb = NoRam
             /\ host > host_available
             /\ calc_in' = calc_in
             /\ host_available' = host
       \/ \E mpp \in PageMemory :
             /\ mpp < calc_in.memory_per_page_mb
             /\ calc_in' = [calc_in EXCEPT !.memory_per_page_mb = mpp]
             /\ host_available' = host_available
    /\ calc_prev' = [in |-> calc_in, host |-> host_available, out |-> calc_out]
    /\ calc_out' = calculate_batch_size(calc_in', host_available')
    /\ pc' = "recalculated"
    /\ UNCHANGED <<planVars, runVars, loadVars>>

NextCalc == Calculate \/ Recalculate

SpecCalc == InitCalc /\ [][NextCalc]_vars

(***************************************************************************)
(* pdf_outline_inspector.py: inspect_pdf_outline, as its callers use it.   *)
(* A document is [page_count, outline, toc_error]: outline is what         *)
(* extract_outline returns, toc_error says that reading it raises.  The    *)
(* 'chapters' key of the result is read by no caller and is left out.      *)
(***************************************************************************)
inspect_pdf_outline(doc) ==
    IF doc.outline = <<>>
    THEN [has_outline |-> FALSE, outline_items |-> <<>>]
    ELSE [has_outline |-> TRUE, outline_items |-> doc.outline]

RunOutlines(tp) == UNION {OutlinesOfLen(n, tp) : n \in 0 .. RunMaxEntries}

Documents ==
    {[page_count |-> tp, outline |-> o, toc_error |-> FALSE] :
        tp \in 1 .. RunMaxPages, o \in RunOutlines(RunMaxPages)}
    \cup {[page_count |-> tp, outline |-> <<>>, toc_error |-> TRUE] :
             tp \in 1 .. RunMaxPages}

\* the documents whose outline entries point into the document
ReadableDocuments ==
    {d \in Documents : \A k \in 1 .. Len(d.outline) : d.outline[k].page <= d.page_count}

(***************************************************************************)
(* docling_batched.py: convert_pdf_in_batches, one action per step.        *)
(* Clock readings (the timestamp of the header, the durations) are left    *)
(* out; batch_times is the number of durations recorded.                   *)
(***************************************************************************)
Call(op, arg) == [op |-> op, arg |-> arg]

\* what the engine can do with one range: return a result with status SUCCESS
\* whose document exports, return another status, raise, or return SUCCESS
\* with a document whose export_to_markdown raises
EngineOutcomes == {"SUCCESS", "FAILURE", "PARTIAL_SUCCESS", "RAISE", "EXPORT_RAISE"}

StatusOf(outcome) == IF outcome = "EXPORT_RAISE" THEN "SUCCESS" ELSE outcome

\* the markdown the engine produces for a page range
Markdown(start, end) == <<"markdown of pages", start, end>>

Write(kind, batch, text) == [kind |-> kind, batch |-> batch, text |-> text]

\* the header writes of lines 125-130
Header(name, tp, bs, smart) ==
    <<Write("title", 0, name), Write("converted", 0, <<>>),
      Write("total_pages", 0, tp), Write("max_batch_size", 0, bs),
      Write("smart_batching", 0, smart), Write("separator", 0, <<>>)>>

\* a fallback that overwrites the outline-based plan
NeedsFixedFallbackAlways(plan) == TRUE

\* if not batches
NeedsFixedFallback(plan) == plan = <<>>

InitConvert ==
    /\ pc = "start"
    /\ pdf \in ReadableDocuments
    /\ batch_size \in 1 .. RunMaxBatch
    /\ use_smart_batching \in BOOLEAN
    /\ total_pages = Unset /\ outline_items = Unset /\ batches = Unset
    /\ outline_result = Unset
    /\ calls = <<>> /\ engine_log = <<>>
    /\ batch_iter = 0
    /\ conv_result = Unset /\ batch_markdown = Unset /\ exception = Unset
    /\ stats = Unset /\ output_file = <<>> /\ flushed = 0
    /\ result = Unset
    /\ host_available = Unset /\ calc_in = Unset /\ calc_out = Unset /\ calc_prev = Unset
    /\ NoLoad

\* lines 56-59
ConvGetPageCount ==
    /\ pc = "start"
    /\ total_pages' = pdf.page_count
    /\ calls' = Append(calls, Call("get_pdf_page_count", <<>>))
    /\ pc' = "smart"
    /\ UNCHANGED <<loadVars, outline_items, batch_size, batches, calcVars, pdf,
                   use_smart_batching,
                   outline_result, engine_log, batch_iter, conv_result, batch_markdown,
                   exception, stats, output_file, flushed, result>>

\* lines 61-82: batches = [] and the try block around the outline query
ConvSmartBatching ==
    /\ pc = "smart"
    /\ IF ~use_smart_batching
       THEN /\ batches' = <<>>
            /\ UNCHANGED <<outline_result, calls>>
       ELSE IF pdf.toc_error
       THEN \* inspect_pdf_outline raises; except Exception logs a warning
            /\ batches' = <<>>
            /\ outline_result' = [raised |-> TRUE]
            /\ calls' = Append(calls, Call("inspect_pdf_outline", <<>>))
       ELSE LET r == inspect_pdf_outline(pdf) IN
            /\ outline_result' = [raised |-> FALSE, has_outline |-> r.has_outline,
                                  outline_items |-> r.outline_items]
            /\ IF r.has_outline
               THEN /\ batches' = analyze_outline_for_batching(r.outline_items,
                                                               total_pages, batch_size)
                    /\ calls' = calls \o <<Call("inspect_pdf_outline", <<>>),
                                           Call("analyze_outline_for_batching", <<>>)>>
               ELSE /\ batches' = <<>>
                    /\ calls' = Append(calls, Call("inspect_pdf_outline", <<>>))
    /\ pc' = "fallback"
    /\ UNCHANGED <<loadVars, outline_items, total_pages, batch_size, calcVars, pdf,
                   use_smart_batching, engine_log, batch_iter, conv_result,
                   batch_markdown, exception, stats, output_file, flushed, result>>

\* lines 83-93
ConvFixedFallback ==
    /\ pc = "fallback"
    /\ batches' = IF NeedsFixedFallback(batches)
                  THEN FixedSizeBatches(total_pages, batch_size)
                  ELSE batches
    /\ pc' = "init"
    /\ UNCHANGED <<loadVars, outline_items, total_pages, batch_size, calcVars, runVars>>

\* lines 95-108
ConvInitConverter ==
    /\ pc = "init"
    /\ calls' = calls \o <<Call("DocumentConverter", <<>>),
                           Call("initialize_pipeline", <<>>)>>
    /\ pc' = "open"
    /\ UNCHANGED <<loadVars, planVars, calcVars, pdf, use_smart_batching, outline_result,
                   engine_log, batch_iter, conv_result, batch_markdown, exception,
                   stats, output_file, flushed, result>>

\* lines 110-131: the statistics, the output file and its header
ConvOpenOutput ==
    /\ pc = "open"
    /\ stats' = [total_pages |-> total_pages, processed_pages |-> 0,
                 successful_batches |-> 0, failed_batches |-> 0, batch_times |-> 0]
    /\ output_file' = Header("pdf", total_pages, batch_size, use_smart_batching)
    /\ flushed' = Len(output_file')
    /\ pc' = "loop"
    /\ UNCHANGED <<loadVars, planVars, calcVars, pdf, use_smart_batching, outline_result,
                   calls,
                   engine_log, batch_iter, conv_result, batch_markdown, exception,
                   result>>

\* lines 134-150: the next batch of the plan goes to the engine
ConvConvert ==
    /\ pc = "loop"
    /\ batch_iter < Len(batches)
    /\ LET b == batches[batch_iter + 1] IN
       \E outcome \in EngineOutcomes :
          /\ calls' = Append(calls, Call("convert", <<b.start_page, b.end_page>>))
          /\ engine_log' = Append(engine_log, [start_page |-> b.start_page,
                                               end_page |-> b.end_page,
                                               outcome |-> outcome])
          /\ IF outcome = "RAISE"
             THEN /\ exception' = "Processing error"
                  /\ conv_result' = conv_result
                  /\ pc' = "except"
             ELSE /\ conv_result' = [status |-> StatusOf(outcome),
                                     exports |-> outcome # "EXPORT_RAISE",
                                     page_range |-> <<b.start_page, b.end_page>>]
                  /\ exception' = exception
                  /\ pc' = "converted"
    /\ batch_iter' = batch_iter + 1
    /\ UNCHANGED <<loadVars, planVars, calcVars, pdf, use_smart_batching, outline_result,
                   batch_markdown, stats, output_file, flushed, result>>

\* a non-success branch that writes its marker and leaves it in the buffer
ConvFailedUnflushed ==
    /\ pc = "converted"
    /\ conv_result.status # "SUCCESS"
    /\ stats' = [stats EXCEPT !.failed_batches = @ + 1]
    /\ output_file' = Append(output_file, Write("FAILED", batch_iter, conv_result.status))
    /\ flushed' = flushed
    /\ pc' = "loop"
    /\ UNCHANGED <<loadVars, planVars, calcVars, pdf, use_smart_batching, outline_result,
                   calls, engine_log, batch_iter, conv_result, batch_markdown,
                   exception, result>>

\* a non-success branch that reports the status as a raised error
ConvFailedAsError ==
    /\ pc = "converted"
    /\ conv_result.status # "SUCCESS"
    /\ stats' = [stats EXCEPT !.failed_batches = @ + 1]
    /\ output_file' = Append(output_file, Write("ERROR", batch_iter, conv_result.status))
    /\ flushed' = Len(output_file')
    /\ pc' = "loop"
    /\ UNCHANGED <<loadVars, planVars, calcVars, pdf, use_smart_batching, outline_result,
                   calls, engine_log, batch_iter, conv_result, batch_markdown,
                   exception, result>>

\* lines 152-157: a status other than SUCCESS
ConvFailed ==
    /\ pc = "converted"
    /\ conv_result.status # "SUCCESS"
    /\ stats' = [stats EXCEPT !.failed_batches = @ + 1]
    /\ output_file' = Append(output_file, Write("FAILED", batch_iter, conv_result.status))
    /\ flushed' = Len(output_file')
    /\ pc' = "loop"
    /\ UNCHANGED <<loadVars, planVars, calcVars, pdf, use_smart_batching, outline_result,
                   calls,
                   engine_log, batch_iter, conv_result, batch_markdown, exception,
                   result>>

\* pages_in_batch of an iteration that counts the limit, not the range
PagesInBatchByLimit(b, bs) == bs

\* line 135: pages_in_batch = end_page - start_page + 1
PagesInBatch(b, bs) == b.end_page - b.start_page + 1

\* a success branch that writes the batch marker before it exports the markdown
ConvSuccessMarkerFirst ==
    /\ pc = "converted"
    /\ conv_result.status = "SUCCESS"
    /\ LET b == batches[batch_iter] IN
       IF ~conv_result.exports
       THEN /\ calls' = Append(calls, Call("export_to_markdown", <<>>))
            /\ output_file' = Append(output_file,
                   Write("batch", batch_iter,
                         <<b.start_page, b.end_page, b.description>>))
            /\ exception' = "export error"
            /\ pc' = "except"
            /\ UNCHANGED <<conv_result, batch_markdown, stats, flushed>>
       ELSE /\ output_file' = output_file \o
                   <<Write("batch", batch_iter,
                           <<b.start_page, b.end_page, b.description>>),
                     Write("markdown", batch_iter,
                           Markdown(conv_result.page_range[1], conv_result.page_range[2])),
                     Write("newlines", batch_iter, <<>>),
                     Write("separator", batch_iter, <<>>)>>
            /\ flushed' = Len(output_file')
            /\ stats' = [stats EXCEPT
                            !.processed_pages = @ + PagesInBatch(b, batch_size),
                            !.successful_batches = @ + 1,
                            !.batch_times = @ + 1]
            /\ conv_result' = Unset
            /\ batch_markdown' = Unset
            /\ calls' = calls \o <<Call("export_to_markdown", <<>>),
                                   Call("gc.collect", <<>>)>>
            /\ exception' = exception
            /\ pc' = "loop"
    /\ UNCHANGED <<loadVars, planVars, calcVars, pdf, use_smart_batching, outline_result,
                   engine_log, batch_iter, result>>

\* lines 159-189: export, write, count, release
ConvSuccess ==
    /\ pc = "converted"
    /\ conv_result.status = "SUCCESS"
    /\ LET b == batches[batch_iter] IN
       IF ~conv_result.exports
       THEN \* export_to_markdown raises
            /\ calls' = Append(calls, Call("export_to_markdown", <<>>))
            /\ exception' = "export error"
            /\ pc' = "except"
            /\ UNCHANGED <<conv_result, batch_markdown, stats, output_file, flushed>>
       ELSE /\ output_file' = output_file \o
                   <<Write("batch", batch_iter,
                           <<b.start_page, b.end_page, b.description>>),
                     Write("markdown", batch_iter,
                           Markdown(conv_result.page_range[1], conv_result.page_range[2])),
                     Write("newlines", batch_iter, <<>>),
                     Write("separator", batch_iter, <<>>)>>
            /\ flushed' = Len(output_file')
            /\ stats' = [stats EXCEPT
                            !.processed_pages = @ + PagesInBatch(b, batch_size),
                            !.successful_batches = @ + 1,
                            !.batch_times = @ + 1]
            \* del conv_result; del batch_markdown; gc.collect()
            /\ conv_result' = Unset
            /\ batch_markdown' = Unset
            /\ calls' = calls \o <<Call("export_to_markdown", <<>>),
                                   Call("gc.collect", <<>>)>>
            /\ exception' = exception
            /\ pc' = "loop"
    /\ UNCHANGED <<loadVars, planVars, calcVars, pdf, use_smart_batching, outline_result,
                   engine_log, batch_iter, result>>

\* an except block that gives up the run instead of going on to the next batch
ConvErrorAborts ==
    /\ pc = "except"
    /\ stats' = [stats EXCEPT !.failed_batches = @ + 1]
    /\ output_file' = Append(output_file, Write("ERROR", batch_iter, exception))
    /\ flushed' = Len(output_file')
    /\ calls' = Append(calls, Call("gc.collect", <<>>))
    /\ exception' = Unset
    /\ result' = [raised |-> "", value |-> stats']
    /\ pc' = "done"
    /\ UNCHANGED <<loadVars, planVars, calcVars, pdf, use_smart_batching, outline_result,
                   engine_log, batch_iter, conv_result, batch_markdown>>

\* an except block that builds and initialises a fresh engine after an error
ConvErrorReinitialises ==
    /\ pc = "except"
    /\ stats' = [stats EXCEPT !.failed_batches = @ + 1]
    /\ output_file' = Append(output_file, Write("ERROR", batch_iter, exception))
    /\ flushed' = Len(output_file')
    /\ calls' = calls \o <<Call("gc.collect", <<>>), Call("DocumentConverter", <<>>),
                           Call("initialize_pipeline", <<>>)>>
    /\ exception' = Unset
    /\ pc' = "loop"
    /\ UNCHANGED <<loadVars, planVars, calcVars, pdf, use_smart_batching, outline_result,
                   engine_log, batch_iter, conv_result, batch_markdown, result>>

\* lines 191-198: the except block of the loop body
ConvError ==
    /\ pc = "except"
    /\ stats' = [stats EXCEPT !.failed_batches = @ + 1]
    /\ output_file' = Append(output_file, Write("ERROR", batch_iter, exception))
    /\ flushed' = Len(output_file')
    /\ calls' = Append(calls, Call("gc.collect", <<>>))
    /\ exception' = Unset
    /\ pc' = "loop"
    /\ UNCHANGED <<loadVars, planVars, calcVars, pdf, use_smart_batching, outline_result,
                   engine_log, batch_iter, conv_result, batch_markdown, result>>

\* lines 200-202: the plan is exhausted, the file is closed, stats is returned
ConvReturn ==
    /\ pc = "loop"
    /\ batch_iter = Len(batches)
    /\ result' = [raised |-> "", value |-> stats]
    /\ pc' = "done"
    /\ UNCHANGED <<loadVars, planVars, calcVars, pdf, use_smart_batching, outline_result,
                   calls,
                   engine_log, batch_iter, conv_result, batch_markdown, exception,
                   stats, output_file, flushed>>

NextConvert ==
    \/ ConvGetPageCount \/ ConvSmartBatching \/ ConvFixedFallback
    \/ ConvInitConverter \/ ConvOpenOutput
    \/ ConvConvert \/ ConvFailed \/ ConvSuccess \/ ConvError
    \/ ConvReturn

SpecConvert == InitConvert /\ [][NextConvert]_vars

\* the loop is scheduled until it returns: nothing in it waits
FairSpecConvert == SpecConvert /\ WF_vars(NextConvert)

(***************************************************************************)
(* loading_service_implementation.py: load_pdf, one action per step.       *)
(* The request carries the document; uuid and clock values are left out.   *)
(***************************************************************************)
\* calculate_batch_size(memory_per_page_mb=67.8) with the defaults of its
\* other parameters
LoadArguments ==
    [available_ram_gb |-> NoRam, memory_per_page_mb |-> 678, overhead_gb |-> 4,
     safety_margin |-> 80, min_batch_size |-> 1, max_batch_size |-> 500]

\* hosts from 1.5 GB of available memory on
LoadHostMemory ==
    (EighthsPerGB + EighthsPerGB \div 2) .. (EighthsPerGB + EighthsPerGB \div 2 + RunMaxHost)

\* str(conv_result.status)
StatusText(status) == "ConversionStatus." \o status

InitLoad ==
    /\ pc = "start"
    /\ pdf \in ReadableDocuments
    /\ host_available \in LoadHostMemory
    /\ use_smart_batching = Unset
    /\ batch_size = Unset
    /\ total_pages = Unset /\ outline_items = Unset /\ batches = Unset
    /\ outline_result = Unset
    /\ calls = <<>> /\ engine_log = <<>>
    /\ batch_iter = 0
    /\ conv_result = Unset /\ batch_markdown = Unset /\ exception = Unset
    /\ stats = Unset /\ output_file = Unset /\ flushed = Unset
    /\ result = Unset
    /\ calc_in = Unset /\ calc_out = Unset /\ calc_prev = Unset
    /\ processed_batches = Unset /\ successful_batches = Unset
    /\ failed_batches = Unset /\ batch_config = Unset
    /\ documents_collection = <<>>

\* lines 75-86: the request's bytes go to a temporary file
LoadWriteTempFile ==
    /\ pc = "start"
    /\ calls' = Append(calls, Call("NamedTemporaryFile", <<>>))
    /\ pc' = "calculate"
    /\ UNCHANGED <<planVars, calcVars, loadVars, pdf, use_smart_batching, outline_result,
                   engine_log, batch_iter, conv_result, batch_markdown, exception,
                   stats, output_file, flushed, result>>

\* a batch size step that swallows the estimator's error and goes on with the
\* fallback batch size of convert_pdf_in_batches
LoadCalculateBatchSizeSwallows ==
    /\ pc = "calculate"
    /\ calc_in' = LoadArguments
    /\ calc_out' = calculate_batch_size(LoadArguments, host_available)
    /\ calls' = Append(calls, Call("calculate_batch_size", <<>>))
    /\ batch_config' = calc_out'
    /\ batch_size' = IF calc_out'.raised # "" THEN 50
                     ELSE calc_out'.recommended_batch_size
    /\ exception' = exception
    /\ pc' = "count"
    /\ UNCHANGED <<outline_items, total_pages, batches, host_available, calc_prev, pdf,
                   use_smart_batching, outline_result, engine_log, batch_iter,
                   conv_result, batch_markdown, stats, output_file, flushed, result,
                   processed_batches, successful_batches, failed_batches,
                   documents_collection>>

\* lines 88-95: the batch size, or the estimator's error, which leaves the
\* with block and reaches the except clause of line 270
LoadCalculateBatchSize ==
    /\ pc = "calculate"
    /\ calc_in' = LoadArguments
    /\ calc_out' = calculate_batch_size(LoadArguments, host_available)
    /\ calls' = Append(calls, Call("calculate_batch_size", <<>>))
    /\ IF calc_out'.raised # ""
       THEN /\ exception' = calc_out'
            /\ pc' = "handler"
            /\ UNCHANGED <<batch_config, batch_size>>
       ELSE /\ batch_config' = calc_out'
            /\ batch_size' = calc_out'.recommended_batch_size
            /\ exception' = exception
            /\ pc' = "count"
    /\ UNCHANGED <<outline_items, total_pages, batches, host_available, calc_prev, pdf,
                   use_smart_batching, outline_result, engine_log, batch_iter,
                   conv_result, batch_markdown, stats, output_file, flushed, result,
                   processed_batches, successful_batches, failed_batches,
                   documents_collection>>

\* lines 97-100
LoadGetPageCount ==
    /\ pc = "count"
    /\ total_pages' = pdf.page_count
    /\ calls' = Append(calls, Call("get_pdf_page_count", <<>>))
    /\ pc' = "smart"
    /\ UNCHANGED <<outline_items, batch_size, batches, calcVars, loadVars, pdf,
                   use_smart_batching, outline_result, engine_log, batch_iter,
                   conv_result, batch_markdown, exception, stats, output_file, flushed,
                   result>>

\* a planning step that does not consult the outline
LoadSmartBatchingDisabled ==
    /\ pc = "smart"
    /\ use_smart_batching' = FALSE
    /\ batches' = <<>>
    /\ pc' = "fallback"
    /\ UNCHANGED <<outline_items, total_pages, batch_size, calcVars, loadVars, pdf,
                   outline_result, calls, engine_log, batch_iter, conv_result,
                   batch_markdown, exception, stats, output_file, flushed, result>>

\* lines 102-125: use_smart_batching = True and the try block around the
\* outline query
LoadSmartBatching ==
    /\ pc = "smart"
    /\ use_smart_batching' = TRUE
    /\ IF pdf.toc_error
       THEN /\ batches' = <<>>
            /\ outline_result' = [raised |-> TRUE]
            /\ calls' = Append(calls, Call("inspect_pdf_outline", <<>>))
       ELSE LET r == inspect_pdf_outline(pdf) IN
            /\ outline_result' = [raised |-> FALSE, has_outline |-> r.has_outline,
                                  outline_items |-> r.outline_items]
            /\ IF r.has_outline
               THEN /\ batches' = analyze_outline_for_batching(r.outline_items,
                                                               total_pages, batch_size)
                    /\ calls' = calls \o <<Call("inspect_pdf_outline", <<>>),
                                           Call("analyze_outline_for_batching", <<>>)>>
               ELSE /\ batches' = <<>>
                    /\ calls' = Append(calls, Call("inspect_pdf_outline", <<>>))
    /\ pc' = "fallback"
    /\ UNCHANGED <<outline_items, total_pages, batch_size, calcVars, loadVars, pdf,
                   engine_log, batch_iter, conv_result, batch_markdown, exception,
                   stats, output_file, flushed, result>>

\* lines 127-137
LoadFixedFallback ==
    /\ pc = "fallback"
    /\ batches' = IF NeedsFixedFallback(batches)
                  THEN FixedSizeBatches(total_pages, batch_size)
                  ELSE batches
    /\ pc' = "init"
    /\ UNCHANGED <<outline_items, total_pages, batch_size, calcVars, runVars, loadVars>>

\* lines 139-155: the converter, its pipeline, the empty ledger and counters
LoadInitConverter ==
    /\ pc = "init"
    /\ calls' = calls \o <<Call("DocumentConverter", <<>>),
                           Call("initialize_pipeline", <<>>)>>
    /\ processed_batches' = <<>>
    /\ successful_batches' = 0
    /\ failed_batches' = 0
    /\ pc' = "loop"
    /\ UNCHANGED <<planVars, calcVars, batch_config, documents_collection, pdf,
                   use_smart_batching, outline_result, engine_log, batch_iter,
                   conv_result, batch_markdown, exception, stats, output_file, flushed,
                   result>>

\* lines 157-170: the next batch of the plan goes to the engine
LoadConvert ==
    /\ pc = "loop"
    /\ batch_iter < Len(batches)
    /\ LET b == batches[batch_iter + 1] IN
       \E outcome \in EngineOutcomes :
          /\ calls' = Append(calls, Call("convert", <<b.start_page, b.end_page>>))
          /\ engine_log' = Append(engine_log, [start_page |-> b.start_page,
                                               end_page |-> b.end_page,
                                               outcome |-> outcome])
          /\ IF outcome = "RAISE"
             THEN /\ exception' = "Processing error"
                  /\ conv_result' = conv_result
                  /\ pc' = "except"
             ELSE /\ conv_result' = [status |-> StatusOf(outcome),
                                     exports |-> outcome # "EXPORT_RAISE",
                                     page_range |-> <<b.start_page, b.end_page>>]
                  /\ exception' = exception
                  /\ pc' = "converted"
    /\ batch_iter' = batch_iter + 1
    /\ UNCHANGED <<planVars, calcVars, loadVars, pdf, use_smart_batching, outline_result,
                   batch_markdown, stats, output_file, flushed, result>>

\* a non-success branch that records the batch and forgets to count it
LoadFailedUncounted ==
    /\ pc = "converted"
    /\ conv_result.status # "SUCCESS"
    /\ LET b == batches[batch_iter] IN
       processed_batches' = Append(processed_batches,
           [batch_number |-> batch_iter, start_page |-> b.start_page,
            end_page |-> b.end_page, description |-> b.description,
            status |-> StatusText(conv_result.status), markdown |-> None,
            success |-> FALSE])
    /\ failed_batches' = failed_batches
    /\ pc' = "loop"
    /\ UNCHANGED <<planVars, calcVars, runVars, successful_batches, batch_config,
                   documents_collection>>

\* lines 172-184: a status other than SUCCESS
LoadFailed ==
    /\ pc = "converted"
    /\ conv_result.status # "SUCCESS"
    /\ LET b == batches[batch_iter] IN
       processed_batches' = Append(processed_batches,
           [batch_number |-> batch_iter, start_page |-> b.start_page,
            end_page |-> b.end_page, description |-> b.description,
            status |-> StatusText(conv_result.status), markdown |-> None,
            success |-> FALSE])
    /\ failed_batches' = failed_batches + 1
    /\ pc' = "loop"
    /\ UNCHANGED <<planVars, calcVars, runVars, successful_batches, batch_config,
                   documents_collection>>

\* lines 186-205: export, append to the ledger, count, release
LoadSuccess ==
    /\ pc = "converted"
    /\ conv_result.status = "SUCCESS"
    /\ LET b == batches[batch_iter] IN
       IF ~conv_result.exports
       THEN \* export_to_markdown raises
            /\ calls' = Append(calls, Call("export_to_markdown", <<>>))
            /\ exception' = "export error"
            /\ pc' = "except"
            /\ UNCHANGED <<conv_result, batch_markdown, processed_batches,
                           successful_batches>>
       ELSE /\ processed_batches' = Append(processed_batches,
                   [batch_number |-> batch_iter, start_page |-> b.start_page,
                    end_page |-> b.end_page, description |-> b.description,
                    status |-> "SUCCESS",
                    markdown |-> Markdown(conv_result.page_range[1],
                                          conv_result.page_range[2]),
                    success |-> TRUE])
            /\ successful_batches' = successful_batches + 1
            \* del conv_result; del batch_markdown; gc.collect()
            /\ conv_result' = Unset
            /\ batch_markdown' = Unset
            /\ calls' = calls \o <<Call("export_to_markdown", <<>>),
                                   Call("gc.collect", <<>>)>>
            /\ exception' = exception
            /\ pc' = "loop"
    /\ UNCHANGED <<planVars, calcVars, failed_batches, batch_config,
                   documents_collection, pdf, use_smart_batching, outline_result,
                   engine_log, batch_iter, stats, output_file, flushed, result>>

\* an except block that numbers its entry with the 0-based loop index
LoadErrorZeroBased ==
    /\ pc = "except"
    /\ LET b == batches[batch_iter] IN
       processed_batches' = Append(processed_batches,
           [batch_number |-> batch_iter - 1, start_page |-> b.start_page,
            end_page |-> b.end_page, description |-> b.description,
            status |-> "ERROR", error |-> exception, success |-> FALSE])
    /\ failed_batches' = failed_batches + 1
    /\ calls' = Append(calls, Call("gc.collect", <<>>))
    /\ exception' = Unset
    /\ pc' = "loop"
    /\ UNCHANGED <<planVars, calcVars, successful_batches, batch_config,
                   documents_collection, pdf, use_smart_batching, outline_result,
                   engine_log, batch_iter, conv_result, batch_markdown, stats,
                   output_file, flushed, result>>

\* lines 207-219: the except block of the loop body
LoadError ==
    /\ pc = "except"
    /\ LET b == batches[batch_iter] IN
       processed_batches' = Append(processed_batches,
           [batch_number |-> batch_iter, start_page |-> b.start_page,
            end_page |-> b.end_page, description |-> b.description,
            status |-> "ERROR", error |-> exception, success |-> FALSE])
    /\ failed_batches' = failed_batches + 1
    /\ calls' = Append(calls, Call("gc.collect", <<>>))
    /\ exception' = Unset
    /\ pc' = "loop"
    /\ UNCHANGED <<planVars, calcVars, successful_batches, batch_config,
                   documents_collection, pdf, use_smart_batching, outline_result,
                   engine_log, batch_iter, conv_result, batch_markdown, stats,
                   output_file, flushed, result>>

\* lines 221-246: the plan is exhausted; the document is built and inserted,
\* or the insert raises
LoadStore ==
    /\ pc = "loop"
    /\ batch_iter = Len(batches)
    /\ calls' = Append(calls, Call("insert_one", <<>>))
    /\ \/ /\ documents_collection' = Append(documents_collection,
                 [name |-> "pdf", page_count |-> total_pages,
                  batch_count |-> Len(processed_batches),
                  successful_batches |-> successful_batches,
                  failed_batches |-> failed_batches,
                  batches |-> processed_batches,
                  batch_config |-> batch_config,
                  use_smart_batching |-> use_smart_batching])
          /\ exception' = exception
          /\ pc' = "respond"
       \/ /\ documents_collection' = documents_collection
          /\ exception' = [raised |-> "insert_one failed"]
          /\ pc' = "handler"
    /\ UNCHANGED <<planVars, calcVars, processed_batches, successful_batches,
                   failed_batches, batch_config, pdf, use_smart_batching,
                   outline_result, engine_log, batch_iter, conv_result, batch_markdown,
                   stats, output_file, flushed, result>>

\* a response whose flag says that no batch failed
LoadReturnAllOrNothing ==
    /\ pc = "respond"
    /\ result' = [raised |-> "",
                  value |-> [success |-> failed_batches = 0,
                             successful |-> successful_batches,
                             chunk_count |-> Len(processed_batches),
                             page_count |-> total_pages]]
    /\ pc' = "done"
    /\ UNCHANGED <<planVars, calcVars, loadVars, pdf, use_smart_batching, outline_result,
                   calls, engine_log, batch_iter, conv_result, batch_markdown, exception,
                   stats, output_file, flushed>>

\* lines 248-268
LoadReturn ==
    /\ pc = "respond"
    /\ result' = [raised |-> "",
                  value |-> [success |-> TRUE,
                             successful |-> successful_batches,
                             chunk_count |-> Len(processed_batches),
                             page_count |-> total_pages]]
    /\ pc' = "done"
    /\ UNCHANGED <<planVars, calcVars, loadVars, pdf, use_smart_batching, outline_result,
                   calls, engine_log, batch_iter, conv_result, batch_markdown, exception,
                   stats, output_file, flushed>>

\* lines 270-272: except Exception: log and raise
LoadReraise ==
    /\ pc = "handler"
    /\ result' = [raised |-> exception.raised, value |-> exception]
    /\ pc' = "done"
    /\ UNCHANGED <<planVars, calcVars, loadVars, pdf, use_smart_batching, outline_result,
                   calls, engine_log, batch_iter, conv_result, batch_markdown, exception,
                   stats, output_file, flushed>>

NextLoad ==
    \/ LoadWriteTempFile \/ LoadCalculateBatchSize \/ LoadGetPageCount
    \/ LoadSmartBatching \/ LoadFixedFallback \/ LoadInitConverter
    \/ LoadConvert \/ LoadFailed \/ LoadSuccess \/ LoadError
    \/ LoadStore \/ LoadReturn \/ LoadReraise

SpecLoad == InitLoad /\ [][NextLoad]_vars

(***************************************************************************)
(* loading_service_implementation.py: several load_pdf requests served by  *)
(* one LoadingServiceImplementation.  Every name that load_pdf assigns is a *)
(* local of the call, so here it is a function of the request; the object's *)
(* documents_collection and the host's memory are shared.  calls[r] counts  *)
(* the engine invocations of request r that have not returned.              *)
(***************************************************************************)
Requests == {"r1", "r2"}

\* documents without a table of contents
PlainDocuments ==
    {d \in ReadableDocuments :
        d.page_count <= ConcMaxPages /\ d.outline = <<>> /\ ~d.toc_error}

\* the names that a step of one request leaves alone in every request
ReqFrame(names) ==
    /\ IF "total_pages" \in names THEN TRUE ELSE UNCHANGED total_pages
    /\ IF "batch_size" \in names THEN TRUE ELSE UNCHANGED batch_size
    /\ IF "batches" \in names THEN TRUE ELSE UNCHANGED batches
    /\ IF "batch_config" \in names THEN TRUE ELSE UNCHANGED batch_config
    /\ IF "calls" \in names THEN TRUE ELSE UNCHANGED calls
    /\ IF "engine_log" \in names THEN TRUE ELSE UNCHANGED engine_log
    /\ IF "batch_iter" \in names THEN TRUE ELSE UNCHANGED batch_iter
    /\ IF "conv_result" \in names THEN TRUE ELSE UNCHANGED conv_result
    /\ IF "exception" \in names THEN TRUE ELSE UNCHANGED exception
    /\ IF "processed_batches" \in names THEN TRUE ELSE UNCHANGED processed_batches
    /\ IF "successful_batches" \in names THEN TRUE ELSE UNCHANGED successful_batches
    /\ IF "failed_batches" \in names THEN TRUE ELSE UNCHANGED failed_batches
    /\ IF "documents_collection" \in names THEN TRUE ELSE UNCHANGED documents_collection
    /\ IF "result" \in names THEN TRUE ELSE UNCHANGED result
    /\ UNCHANGED <<outline_items, host_available, calc_in, calc_out, calc_prev, pdf,
                   use_smart_batching, outline_result, batch_markdown, stats,
                   output_file, flushed>>

InitConcurrent ==
    /\ pc = [r \in Requests |-> "start"]
    /\ pdf \in [Requests -> PlainDocuments]
    /\ host_available \in LoadHostMemory
    /\ total_pages = [r \in Requests |-> Unset]
    /\ batch_size = [r \in Requests |-> Unset]
    /\ batches = [r \in Requests |-> Unset]
    /\ batch_config = [r \in Requests |-> Unset]
    /\ calls = [r \in Requests |-> 0]
    /\ engine_log = [r \in Requests |-> <<>>]
    /\ batch_iter = [r \in Requests |-> 0]
    /\ conv_result = [r \in Requests |-> Unset]
    /\ exception = [r \in Requests |-> Unset]
    /\ processed_batches = [r \in Requests |-> Unset]
    /\ successful_batches = [r \in Requests |-> Unset]
    /\ failed_batches = [r \in Requests |-> Unset]
    /\ result = [r \in Requests |-> Unset]
    /\ documents_collection = <<>>
    /\ outline_items = Unset /\ calc_in = Unset /\ calc_out = Unset /\ calc_prev = Unset
    /\ use_smart_batching = Unset /\ outline_result = Unset /\ batch_markdown = Unset
    /\ stats = Unset /\ output_file = Unset /\ flushed = Unset

\* lines 75-155: the temporary file, the batch size (or the estimator's error),
\* the page count, the plan of a document without outline, the engine, the
\* empty ledger and the counters
ReqPrepare(r) ==
    /\ pc[r] = "start"
    /\ LET config == calculate_batch_size(LoadArguments, host_available) IN
       IF config.raised # ""
       THEN /\ exception' = [exception EXCEPT ![r] = config]
            /\ pc' = [pc EXCEPT ![r] = "handler"]
            /\ ReqFrame({"exception"})
       ELSE /\ batch_config' = [batch_config EXCEPT ![r] = config]
            /\ batch_size' = [batch_size EXCEPT ![r] = config.recommended_batch_size]
            /\ total_pages' = [total_pages EXCEPT ![r] = pdf[r].page_count]
            /\ batches' = [batches EXCEPT ![r] =
                              FixedSizeBatches(pdf[r].page_count,
                                               config.recommended_batch_size)]
            /\ processed_batches' = [processed_batches EXCEPT ![r] = <<>>]
            /\ successful_batches' = [successful_batches EXCEPT ![r] = 0]
            /\ failed_batches' = [failed_batches EXCEPT ![r] = 0]
            /\ pc' = [pc EXCEPT ![r] = "loop"]
            /\ ReqFrame({"batch_config", "batch_size", "total_pages", "batches",
                         "processed_batches", "successful_batches", "failed_batches"})

\* lines 157-170: doc_converter.convert is entered for the next range
ReqConvertBegin(r) ==
    /\ pc[r] = "loop"
    /\ batch_iter[r] < Len(batches[r])
    /\ batch_iter' = [batch_iter EXCEPT ![r] = @ + 1]
    /\ calls' = [calls EXCEPT ![r] = @ + 1]
    /\ pc' = [pc EXCEPT ![r] = "converting"]
    /\ ReqFrame({"batch_iter", "calls"})

\* lines 166-170: doc_converter.convert returns a result or raises
ReqConvertEnd(r) ==
    /\ pc[r] = "converting"
    /\ LET b == batches[r][batch_iter[r]] IN
       \E outcome \in EngineOutcomes :
          /\ engine_log' = [engine_log EXCEPT ![r] =
                               Append(@, [start_page |-> b.start_page,
                                          end_page |-> b.end_page,
                                          outcome |-> outcome])]
          /\ IF outcome = "RAISE"
             THEN /\ exception' = [exception EXCEPT ![r] = "Processing error"]
                  /\ conv_result' = conv_result
                  /\ pc' = [pc EXCEPT ![r] = "except"]
             ELSE /\ conv_result' = [conv_result EXCEPT ![r] =
                                        [status |-> StatusOf(outcome),
                                         exports |-> outcome # "EXPORT_RAISE",
                                         page_range |-> <<b.start_page, b.end_page>>]]
                  /\ exception' = exception
                  /\ pc' = [pc EXCEPT ![r] = "converted"]
    /\ calls' = [calls EXCEPT ![r] = @ - 1]
    /\ ReqFrame({"engine_log", "exception", "conv_result", "calls"})

\* lines 172-184: a status other than SUCCESS
ReqFailed(r) ==
    /\ pc[r] = "converted"
    /\ conv_result[r].status # "SUCCESS"
    /\ LET b == batches[r][batch_iter[r]] IN
       processed_batches' = [processed_batches EXCEPT ![r] = Append(@,
           [batch_number |-> batch_iter[r], start_page |-> b.start_page,
            end_page |-> b.end_page, description |-> b.description,
            status |-> StatusText(conv_result[r].status), markdown |-> None,
            success |-> FALSE])]
    /\ failed_batches' = [failed_batches EXCEPT ![r] = @ + 1]
    /\ pc' = [pc EXCEPT ![r] = "loop"]
    /\ ReqFrame({"processed_batches", "failed_batches"})

\* lines 186-205: export, append to the ledger, count, release
ReqSuccess(r) ==
    /\ pc[r] = "converted"
    /\ conv_result[r].status = "SUCCESS"
    /\ LET b == batches[r][batch_iter[r]] IN
       IF ~conv_result[r].exports
       THEN /\ exception' = [exception EXCEPT ![r] = "export error"]
            /\ pc' = [pc EXCEPT ![r] = "except"]
            /\ ReqFrame({"exception"})
       ELSE /\ processed_batches' = [processed_batches EXCEPT ![r] = Append(@,
                   [batch_number |-> batch_iter[r], start_page |-> b.start_page,
                    end_page |-> b.end_page, description |-> b.description,
                    status |-> "SUCCESS",
                    markdown |-> Markdown(conv_result[r].page_range[1],
                                          conv_result[r].page_range[2]),
                    success |-> TRUE])]
            /\ successful_batches' = [successful_batches EXCEPT ![r] = @ + 1]
            /\ conv_result' = [conv_result EXCEPT ![r] = Unset]
            /\ pc' = [pc EXCEPT ![r] = "loop"]
            /\ ReqFrame({"processed_batches", "successful_batches", "conv_result"})

\* an except block that counts the failure in a counter shared by the requests
ReqErrorSharedCounter(r) ==
    /\ pc[r] = "except"
    /\ LET b == batches[r][batch_iter[r]] IN
       processed_batches' = [processed_batches EXCEPT ![r] = Append(@,
           [batch_number |-> batch_iter[r], start_page |-> b.start_page,
            end_page |-> b.end_page, description |-> b.description,
            status |-> "ERROR", error |-> exception[r], success |-> FALSE])]
    /\ failed_batches' = [q \in Requests |->
                             IF batch_config[q] = Unset THEN Unset
                             ELSE failed_batches[q] + 1]
    /\ exception' = [exception EXCEPT ![r] = Unset]
    /\ pc' = [pc EXCEPT ![r] = "loop"]
    /\ ReqFrame({"processed_batches", "failed_batches", "exception"})

\* lines 207-219: the except block of the loop body
ReqError(r) ==
    /\ pc[r] = "except"
    /\ LET b == batches[r][batch_iter[r]] IN
       processed_batches' = [processed_batches EXCEPT ![r] = Append(@,
           [batch_number |-> batch_iter[r], start_page |-> b.start_page,
            end_page |-> b.end_page, description |-> b.description,
            status |-> "ERROR", error |-> exception[r], success |-> FALSE])]
    /\ failed_batches' = [failed_batches EXCEPT ![r] = @ + 1]
    /\ exception' = [exception EXCEPT ![r] = Unset]
    /\ pc' = [pc EXCEPT ![r] = "loop"]
    /\ ReqFrame({"processed_batches", "failed_batches", "exception"})

\* lines 221-268: the record is inserted into the shared collection and the
\* response is returned
ReqStore(r) ==
    /\ pc[r] = "loop"
    /\ batch_iter[r] = Len(batches[r])
    /\ documents_collection' = Append(documents_collection,
          [name |-> r, page_count |-> total_pages[r],
           batch_count |-> Len(processed_batches[r]),
           successful_batches |-> successful_batches[r],
           failed_batches |-> failed_batches[r],
           batches |-> processed_batches[r],
           batch_config |-> batch_config[r],
           use_smart_batching |-> TRUE])
    /\ result' = [result EXCEPT ![r] =
                     [raised |-> "",
                      value |-> [success |-> TRUE,
                                 successful |-> successful_batches[r],
                                 chunk_count |-> Len(processed_batches[r]),
                                 page_count |-> total_pages[r]]]]
    /\ pc' = [pc EXCEPT ![r] = "done"]
    /\ ReqFrame({"documents_collection", "result"})

\* lines 270-272: except Exception: log and raise
ReqReraise(r) ==
    /\ pc[r] = "handler"
    /\ result' = [result EXCEPT ![r] = [raised |-> exception[r].raised,
                                        value |-> exception[r]]]
    /\ pc' = [pc EXCEPT ![r] = "done"]
    /\ ReqFrame({"result"})

\* one step of one request
ReqStep(r) ==
    \/ ReqPrepare(r) \/ ReqConvertBegin(r) \/ ReqConvertEnd(r)
    \/ ReqFailed(r) \/ ReqSuccess(r) \/ ReqError(r)
    \/ ReqStore(r) \/ ReqReraise(r)

NextConcurrent == \E r \in Requests : ReqStep(r)

SpecConcurrent == InitConcurrent /\ [][NextConcurrent]_vars

(***************************************************************************)
(* convert_pdf_in_batches and then load_pdf on the same document, with the  *)
(* batch size that load_pdf computes on the host and the same outcome of    *)
(* the engine for every batch.  calc_prev is unset while the first function *)
(* runs and then holds what it did.                                         *)
(***************************************************************************)
\* the hosts on which calculate_batch_size returns a configuration
SufficientHosts ==
    {h \in LoadHostMemory : calculate_batch_size(LoadArguments, h).raised = ""}

InitBoth ==
    /\ pc = "start"
    /\ pdf \in ReadableDocuments
    /\ host_available \in SufficientHosts
    /\ batch_size = calculate_batch_size(LoadArguments, host_available).recommended_batch_size
    /\ use_smart_batching = TRUE
    /\ total_pages = Unset /\ outline_items = Unset /\ batches = Unset
    /\ outline_result = Unset
    /\ calls = <<>> /\ engine_log = <<>>
    /\ batch_iter = 0
    /\ conv_result = Unset /\ batch_markdown = Unset /\ exception = Unset
    /\ stats = Unset /\ output_file = <<>> /\ flushed = 0
    /\ result = Unset
    /\ calc_in = Unset /\ calc_out = Unset /\ calc_prev = Unset
    /\ NoLoad

\* a step of convert_pdf_in_batches
BothConvertStep ==
    /\ calc_prev = Unset
    /\ NextConvert

\* convert_pdf_in_batches has returned; the document goes to load_pdf
BothHandOver ==
    /\ calc_prev = Unset
    /\ pc = "done"
    /\ calc_prev' = [batch_size |-> batch_size,
                     total_pages |-> total_pages,
                     batches |-> batches,
                     calls |-> calls,
                     engine_log |-> engine_log,
                     stats |-> result.value]
    /\ pc' = "start"
    /\ batch_size' = Unset /\ total_pages' = Unset /\ batches' = Unset
    /\ use_smart_batching' = Unset /\ outline_result' = Unset
    /\ calls' = <<>> /\ engine_log' = <<>>
    /\ batch_iter' = 0
    /\ result' = Unset
    /\ UNCHANGED <<outline_items, host_available, calc_in, calc_out, pdf, conv_result,
                   batch_markdown, exception, stats, output_file, flushed, loadVars>>

\* a step of load_pdf in which the engine does with a range what it did with
\* the range of the same position before
BothLoadStep ==
    /\ calc_prev # Unset
    /\ NextLoad
    /\ \A k \in 1 .. Len(engine_log') :
          k <= Len(calc_prev.engine_log) =>
              engine_log'[k].outcome = calc_prev.engine_log[k].outcome

NextBoth == BothConvertStep \/ BothHandOver \/ BothLoadStep

SpecBoth == InitBoth /\ [][NextBoth]_vars

(***************************************************************************)
(* Properties of the batch plans.                                          *)
(***************************************************************************)
PagesIn(b) == b.end_page - b.start_page + 1

\* the ranges, in order, cover [1, tp] exactly once
CoversExactly(bs, tp) ==
    /\ bs # <<>>
    /\ bs[1].start_page = 1
    /\ \A k \in 2 .. Len(bs) : bs[k].start_page = bs[k - 1].end_page + 1
    /\ bs[Len(bs)].end_page = tp

\* some level-0 or level-1 entry has a defined page
HasChapterMarker(items) ==
    \E k \in 1 .. Len(items) : items[k].level \in {0, 1} /\ items[k].page # None

\* C1: for every outline with a chapter marker the ranges returned by
\* analyze_outline_for_batching cover [1, total_pages] exactly once: the first
\* starts at page 1, each next one starts at the previous end + 1 and the last
\* ends at total_pages, also when pages precede the first chapter marker.
C1_OutlineCoversAllPages ==
    (pc = "outline" /\ HasChapterMarker(outline_items))
        => CoversExactly(batches, total_pages)

\* C2: every range returned by analyze_outline_for_batching spans at most
\* max_batch_size pages.
C2_OutlineRangeWithinLimit ==
    pc = "outline" => \A k \in 1 .. Len(batches) : PagesIn(batches[k]) <= batch_size

\* C3: the fixed-size plan is non-empty, its k-th range is
\* [(k-1)*b + 1, min(k*b, total_pages)], the ranges are contiguous and cover
\* [1, total_pages] exactly, none exceeds batch_size pages, only the last may be
\* shorter, and batch_size >= total_pages gives the single range [1, total_pages].
C3_FixedPlanPartitions ==
    pc = "fixed" =>
        /\ CoversExactly(batches, total_pages)
        /\ \A k \in 1 .. Len(batches) :
              /\ batches[k].start_page = (k - 1) * batch_size + 1
              /\ batches[k].end_page = Min(k * batch_size, total_pages)
              /\ 1 <= PagesIn(batches[k]) /\ PagesIn(batches[k]) <= batch_size
              /\ k < Len(batches) => PagesIn(batches[k]) = batch_size
        /\ batch_size >= total_pages =>
              (Len(batches) = 1 /\ batches[1].start_page = 1
                                /\ batches[1].end_page = total_pages)

\* a fixed plan of several ranges whose last range is the shorter one
C3_Witness ==
    /\ pc = "fixed"
    /\ Len(batches) >= 2
    /\ PagesIn(batches[Len(batches)]) < batch_size

\* the last page of chapter i: the page before the next chapter, or tp
ChapterEnd(chapters, i, tp) ==
    IF i + 1 <= Len(chapters) THEN chapters[i + 1].page - 1 ELSE tp

NoOversizedChapter(chapters, tp, limit) ==
    \A i \in 1 .. Len(chapters) :
        ChapterEnd(chapters, i, tp) - chapters[i].page + 1 <= limit

\* the merge rule: chapter i joins the pending batch when the span from the
\* pending start to the chapter's end is <= limit; otherwise the pending batch
\* is closed at the page before the chapter and the chapter opens a new one;
\* the pending batch that is left runs to tp
RECURSIVE MergeByLimit(_, _, _, _, _, _, _)
MergeByLimit(chapters, i, tp, limit, closed, pending_start, pending) ==
    IF i > Len(chapters)
    THEN IF pending = <<>> THEN closed
         ELSE Append(closed, Batch(pending_start, tp, JoinTitles(pending)))
    ELSE IF ChapterEnd(chapters, i, tp) - pending_start + 1 <= limit
    THEN MergeByLimit(chapters, i + 1, tp, limit, closed, pending_start,
                      Append(pending, chapters[i]))
    ELSE MergeByLimit(chapters, i + 1, tp, limit,
                      Append(closed, Batch(pending_start, chapters[i].page - 1,
                                           JoinTitles(pending))),
                      chapters[i].page, <<chapters[i]>>)

\* C20: a chapter that is not itself oversized joins the pending batch exactly
\* when the span from the pending batch's start to the chapter's end is
\* <= max_batch_size (a span equal to the limit is merged); otherwise the pending
\* batch is flushed ending at chapter.start - 1 and a new pending batch starts
\* at chapter.start holding only that chapter.  For chapters at pages 1, 6, 11
\* with 15 pages and limit 10 the result is (1,10,'Chapter 1 + Chapter 2'),
\* (11,15,'Chapter 3').
C20_MergeUpToLimit ==
    pc = "outline" =>
        LET chapters == get_top_level_chapters(outline_items) IN
        /\ (chapters # <<>> /\ NoOversizedChapter(chapters, total_pages, batch_size)) =>
              batches = MergeByLimit(chapters, 1, total_pages, batch_size, <<>>, 1, <<>>)
        /\ (outline_items = ScenarioOutline /\ total_pages = 15 /\ batch_size = 10) =>
              batches = <<Batch(1, 10, "Chapter 1 + Chapter 2"),
                          Batch(11, 15, "Chapter 3")>>

\* the plan of the three chapters: two of them merged to a span equal to the
\* limit, the third in a batch of its own
C20_Witness ==
    /\ pc = "outline"
    /\ outline_items = ScenarioOutline
    /\ Len(batches) = 2
    /\ PagesIn(batches[1]) = batch_size
    /\ batches[1].description = "Chapter 1 + Chapter 2"

PartLabel(title) == title \o " (part)"

\* the positions in the plan of the sub-ranges of the chapter with this title
PartsOf(plan, title) == {k \in 1 .. Len(plan) : plan[k].description = PartLabel(title)}

Oversized(chapters, i, tp, limit) ==
    ChapterEnd(chapters, i, tp) - chapters[i].page + 1 > limit

\* the sub-ranges of the oversized chapter i stand together in the plan, cover
\* the chapter from its first to its last page in steps of limit pages, are
\* preceded by a range that ends before the chapter and followed by one that
\* starts after it, and no other range holds a page of the chapter
SplitAlone(plan, chapters, i, tp, limit) ==
    LET first == chapters[i].page
        last  == ChapterEnd(chapters, i, tp)
        parts == PartsOf(plan, chapters[i].title)
    IN  /\ parts # {}
        /\ \E lo, hi \in parts :
              /\ parts = lo .. hi
              /\ plan[lo].start_page = first
              /\ plan[hi].end_page = last
              /\ \A k \in lo .. hi - 1 :
                    /\ PagesIn(plan[k]) = limit
                    /\ plan[k + 1].start_page = plan[k].end_page + 1
              /\ 1 <= PagesIn(plan[hi]) /\ PagesIn(plan[hi]) <= limit
              /\ lo > 1 => plan[lo - 1].end_page = first - 1
              /\ hi < Len(plan) => plan[hi + 1].start_page = last + 1
              \* the chapters accumulated before it were flushed
              /\ (i > 1 /\ ~Oversized(chapters, i - 1, tp, limit)) =>
                    /\ lo > 1
                    /\ \A j \in 1 .. Len(chapters) :
                          plan[lo - 1].description # PartLabel(chapters[j].title)
        /\ \A k \in (1 .. Len(plan)) \ parts :
              plan[k].end_page < first \/ plan[k].start_page > last

\* C21: a chapter whose own span exceeds max_batch_size is emitted alone as
\* consecutive sub-ranges that exactly cover [chapter.start, chapter.end], each
\* of at most max_batch_size pages and all but the last of exactly
\* max_batch_size pages, each labeled '{title} (part)'; the pending batch is
\* flushed before it, ending at chapter.start - 1, and the next batch starts at
\* chapter.end + 1, so no range mixes pages of an oversized chapter with pages
\* of another chapter.
C21_OversizedChapterSplitAlone ==
    pc = "outline" =>
        LET chapters == get_top_level_chapters(outline_items) IN
        \A i \in 1 .. Len(chapters) :
            Oversized(chapters, i, total_pages, batch_size) =>
                SplitAlone(batches, chapters, i, total_pages, batch_size)

\* a pending chapter flushed before an oversized chapter that is split in a
\* full and a shorter sub-range, followed by a further chapter
C21_Witness ==
    /\ pc = "outline"
    /\ Len(batches) = 4
    /\ batches[1].description = "A"
    /\ batches[2].description = "B (part)" /\ PagesIn(batches[2]) = batch_size
    /\ batches[3].description = "B (part)" /\ PagesIn(batches[3]) < batch_size
    /\ batches[4].description = "C"

\* the outline entries of a level that have a defined page
WithPageAt(items, lvl) ==
    {items[k] : k \in {j \in 1 .. Len(items) :
                          items[j].level = lvl /\ items[j].page # None}}

\* the level whose entries are the chapter markers
MarkerLevel(items) == IF WithPageAt(items, 0) # {} THEN 0 ELSE 1

\* C22: the chapter markers used for partitioning are exactly the level-0
\* outline entries that have a defined page, sorted ascending by page; level-1
\* entries are used only when no level-0 entry with a defined page exists, and
\* the two levels are never mixed.
C22_ChapterMarkerSelection ==
    pc = "outline" =>
        LET chapters == get_top_level_chapters(outline_items)
            markers  == WithPageAt(outline_items, MarkerLevel(outline_items))
        IN  /\ {chapters[k] : k \in 1 .. Len(chapters)} = markers
            /\ Len(chapters) = Cardinality(markers)
            /\ \A k \in 1 .. Len(chapters) - 1 : chapters[k].page <= chapters[k + 1].page
            /\ \A j, k \in 1 .. Len(chapters) : chapters[j].level = chapters[k].level
            \* the plan is the one of these markers
            /\ batches = IF chapters = <<>> THEN <<>>
                         ELSE ChapterLoop(chapters, 1, total_pages, batch_size,
                                          <<>>, 1, <<>>)

\* two level-0 entries listed against their page order, with a level-1 entry
\* that has a page: the markers are the two level-0 entries, by page
C22_Witness ==
    /\ pc = "outline"
    /\ Len(outline_items) = 3
    /\ outline_items[1].level = 0 /\ outline_items[2].level = 1
    /\ outline_items[3].level = 0
    /\ outline_items[3].page # None /\ outline_items[2].page # None
    /\ outline_items[1].page > outline_items[3].page
    /\ get_top_level_chapters(outline_items) = <<outline_items[3], outline_items[1]>>

\* the labels of one or more consecutive chapters, joined
JoinedLabels(chapters) ==
    {JoinTitles(SubSeq(chapters, i, j)) : i \in 1 .. Len(chapters), j \in 1 .. Len(chapters)}
        \ {""}

\* C23: every range returned by analyze_outline_for_batching carries a
\* non-empty label that is either the titles of the one or more chapters
\* accumulated in that batch, in page order, joined with ' + ', or
\* '{title} (part)' for a sub-range of an oversized chapter; no range is emitted
\* with an empty list of chapter titles.
C23_LabelsNonEmpty ==
    pc = "outline" =>
        LET chapters == get_top_level_chapters(outline_items) IN
        \A k \in 1 .. Len(batches) :
            /\ batches[k].description # ""
            /\ batches[k].description \in
                  JoinedLabels(chapters)
                  \cup {PartLabel(chapters[i].title) : i \in 1 .. Len(chapters)}

\* C26: every range that a run passes to the conversion engine is well
\* formed, 1 <= start_page <= end_page <= total_pages: this holds for the plan
\* of analyze_outline_for_batching for every list of chapter markers, several
\* markers on the same page and markers followed by an oversized chapter
\* included, and for the fixed-size plan.
C26_RangesWellFormed ==
    (pc \in {"outline", "fixed"}) =>
        \A k \in 1 .. Len(batches) :
            /\ 1 <= batches[k].start_page
            /\ batches[k].start_page <= batches[k].end_page
            /\ batches[k].end_page <= total_pages

\* C27: analyze_outline_for_batching returns an empty list if and only if
\* the outline has no level-0 entry and no level-1 entry with a defined page
\* (an empty outline included); whenever a chapter marker exists the returned
\* list is non-empty, so that the test for the fixed-size fallback fails.
C27_EmptyPlanIffNoMarker ==
    pc = "outline" =>
        /\ (batches = <<>>) <=> ~HasChapterMarker(outline_items)
        /\ HasChapterMarker(outline_items) => ~NeedsFixedFallback(batches)
        /\ outline_items = <<>> => batches = <<>>

\* an outline whose only entry with a page is of level 1, and its plan
C27_Witness ==
    /\ pc = "outline"
    /\ Len(outline_items) = 2
    /\ outline_items[1].level = 0 /\ outline_items[1].page = None
    /\ outline_items[2].level = 1 /\ outline_items[2].page # None
    /\ batches # <<>>

(***************************************************************************)
(* Properties of calculate_batch_size.  safe_max_pages is the rational     *)
(* SafeNum / SafeDen of the arguments.                                     *)
(***************************************************************************)
Called == pc \in {"calculated", "recalculated"}

UsableOf(in, host) == AvailableOf(in, host) - in.overhead_gb
SafeNum(in, host) == UsableOf(in, host) * MBPerEighth * 10 * in.safety_margin
SafeDen(in) == in.memory_per_page_mb * 100

Abs(x) == IF x < 0 THEN -x ELSE x

\* C4: with usable memory > 0, safety_margin in (0,1] and
\* 1 <= min_batch_size <= max_batch_size the call returns
\* recommended_batch_size = clamp(floor(safe_max_pages), min, max), which lies
\* in [min_batch_size, max_batch_size].
C4_RecommendedIsClampedFloor ==
    (Called /\ UsableOf(calc_in, host_available) > 0) =>
        /\ calc_out.raised = ""
        /\ LET r   == calc_out.recommended_batch_size
               num == SafeNum(calc_in, host_available)
               den == SafeDen(calc_in)
               mn  == calc_in.min_batch_size
               mx  == calc_in.max_batch_size
           IN  /\ mn <= r /\ r <= mx
               /\ IF num < mn * den THEN r = mn                 \* floor < min
                  ELSE IF num >= (mx + 1) * den THEN r = mx     \* floor > max
                  ELSE r * den <= num /\ num < (r + 1) * den    \* r = floor

\* a recommendation strictly between the limits (no clamp acted)
C4_Witness ==
    /\ pc = "calculated"
    /\ calc_out.raised = ""
    /\ calc_in.min_batch_size < calc_out.recommended_batch_size
    /\ calc_out.recommended_batch_size < calc_in.max_batch_size

\* C5: whenever available memory minus overhead is <= 0 the call raises the
\* insufficient-memory error, whose text carries the available and the
\* required (overhead) amounts to one decimal, and returns no configuration;
\* whenever it is > 0 the call returns a configuration.
C5_InsufficientMemoryRaises ==
    Called =>
        LET available == AvailableOf(calc_in, host_available)
        IN  IF available - calc_in.overhead_gb <= 0
            THEN /\ calc_out.raised = "ValueError"
                 /\ DOMAIN calc_out = {"raised", "available", "required"}
                 \* |amount - printed amount| <= 0.05 GB
                 /\ Abs(10 * available - EighthsPerGB * calc_out.available) * 2
                        <= EighthsPerGB
                 /\ Abs(10 * calc_in.overhead_gb - EighthsPerGB * calc_out.required) * 2
                        <= EighthsPerGB
            ELSE /\ calc_out.raised = ""
                 /\ "recommended_batch_size" \in DOMAIN calc_out

\* the boundary: the available memory equals a positive overhead
C5_Witness ==
    /\ pc = "calculated"
    /\ calc_in.overhead_gb > 0
    /\ AvailableOf(calc_in, host_available) = calc_in.overhead_gb
    /\ calc_out.raised = "ValueError"

\* C7: with all other arguments fixed, a call with more available memory, or
\* with less memory per page, never recommends a smaller batch size (both
\* calls with usable memory > 0).
C7_RecommendationMonotonic ==
    (/\ pc = "recalculated"
     /\ UsableOf(calc_prev.in, calc_prev.host) > 0
     /\ UsableOf(calc_in, host_available) > 0)
        => /\ calc_prev.out.raised = "" /\ calc_out.raised = ""
           /\ calc_out.recommended_batch_size >= calc_prev.out.recommended_batch_size

\* more supplied memory gave a strictly larger recommendation
C7_Witness ==
    /\ pc = "recalculated"
    /\ calc_in.available_ram_gb # NoRam
    /\ calc_in.available_ram_gb > calc_prev.in.available_ram_gb
    /\ calc_prev.out.raised = "" /\ calc_out.raised = ""
    /\ calc_out.recommended_batch_size > calc_prev.out.recommended_batch_size

\* C19: for available memory 4.0 GB, memory_per_page 67.8 MB, overhead 0.5 GB,
\* safety_margin 0.8, min 1 and max 500, calculate_batch_size returns
\* recommended_batch_size = 42 (the floor of 3584 x 0.8 / 67.8), usable memory
\* 3.5 GB and the peak memory estimate 0.5 + 42 x 67.8 / 1024 GB rounded to 3.28.
C19_ScenarioFourGigabytes ==
    (Called /\ calc_in = ScenarioArguments) =>
        /\ calc_out.raised = ""
        /\ calc_out.recommended_batch_size = 42
        \* 42 <= 3584 * 0.8 / 67.8 < 43
        /\ 42 * 678 * 100 <= 3584 * 10 * 80 /\ 3584 * 10 * 80 < 43 * 678 * 100
        /\ calc_out.usable_ram_gb = 350
        /\ calc_out.peak_memory_gb = 328
        \* |0.5 + 42 * 67.8 / 1024 - 3.28| <= 0.005
        /\ Abs((5120 + 42 * 678) * 100 - 328 * 10240) * 2 <= 10240

\* the call with these arguments was made
C19_Witness ==
    /\ pc = "calculated"
    /\ calc_in = ScenarioArguments
    /\ calc_out.raised = ""
    /\ calc_out.recommended_batch_size = 42

\* max(probed - 1 GB, 0.5 GB), in eighths of a GB
ProbedLessReserve(host) ==
    IF host - EighthsPerGB > EighthsPerGB \div 2 THEN host - EighthsPerGB
    ELSE EighthsPerGB \div 2

\* C24: when the available memory is not supplied, the value the estimator
\* uses is max(probed host available memory - 1 GB, 0.5 GB); when it is
\* supplied, the supplied value is used unchanged and the result does not depend
\* on the host.
C24_AvailableMemoryUsed ==
    Called =>
        LET used == IF calc_in.available_ram_gb = NoRam
                    THEN ProbedLessReserve(host_available)
                    ELSE calc_in.available_ram_gb
        IN  /\ IF calc_out.raised = ""
               THEN /\ calc_out.available_ram_gb = Round2(used)
                    /\ calc_out.usable_ram_gb = Round2(used - calc_in.overhead_gb)
               ELSE /\ calc_out.available = Format1f(used)
                    /\ used - calc_in.overhead_gb <= 0
            /\ calc_in.available_ram_gb # NoRam =>
                  \A host \in HostMemory :
                      calculate_batch_size(calc_in, host) = calc_out

\* a call without supplied memory on a host whose probe is above the floor
C24_Witness ==
    /\ pc = "calculated"
    /\ calc_in.available_ram_gb = NoRam
    /\ host_available - EighthsPerGB > EighthsPerGB \div 2
    /\ calc_out.raised = ""
    /\ calc_out.available_ram_gb = Round2(host_available - EighthsPerGB)

\* floor(safe_max_pages) >= min_batch_size: the lower clamp does not raise
\* the recommendation
NotRaisedByLowerClamp ==
    /\ Called
    /\ calc_out.raised = ""
    /\ SafeNum(calc_in, host_available) >= calc_in.min_batch_size * SafeDen(calc_in)

\* C29: whenever floor(safe_max_pages) >= min_batch_size, the peak memory
\* estimate that calculate_batch_size returns (peak_memory_gb, in hundredths of
\* a GB) does not exceed the available memory it was computed from (in eighths
\* of a GB).
C29_PeakWithinAvailable ==
    NotRaisedByLowerClamp =>
        calc_out.peak_memory_gb * EighthsPerGB
            <= AvailableOf(calc_in, host_available) * 100

\* C30: with the available memory not supplied and the default overhead of
\* 0.5 GB, every host whose probed available memory is 1.5 GB or less makes
\* calculate_batch_size raise the insufficient-memory error, reporting 0.5 GB
\* available and 0.5 GB needed; no batch configuration comes from the floor.
C30_FloorAlwaysInsufficient ==
    (/\ Called
     /\ calc_in.available_ram_gb = NoRam
     /\ calc_in.overhead_gb = EighthsPerGB \div 2
     /\ 2 * host_available <= 3 * EighthsPerGB) =>
        /\ calc_out.raised = "ValueError"
        /\ calc_out.available = Format1f(EighthsPerGB \div 2)
        /\ calc_out.required = Format1f(EighthsPerGB \div 2)

\* a host with exactly 1.5 GB available, probed with the default overhead
C30_Witness ==
    /\ pc = "calculated"
    /\ calc_in.available_ram_gb = NoRam
    /\ calc_in.overhead_gb = EighthsPerGB \div 2
    /\ 2 * host_available = 3 * EighthsPerGB
    /\ calc_out.raised = "ValueError"

(***************************************************************************)
(* Properties of convert_pdf_in_batches.                                   *)
(***************************************************************************)
Planned == pc \in {"init", "open", "loop", "converted", "except", "done"}

\* the positions of the calls of op in the call log
CallsOf(op) == {k \in 1 .. Len(calls) : calls[k].op = op}

\* the outline query was made, did not raise and reported an outline
OutlineReported ==
    /\ outline_result # Unset
    /\ ~outline_result.raised
    /\ outline_result.has_outline

OutlinePlan ==
    analyze_outline_for_batching(outline_result.outline_items, total_pages, batch_size)

RECURSIVE ConvertCalls(_)
ConvertCalls(log) ==
    IF log = <<>> THEN <<>>
    ELSE IF Head(log).op = "convert"
         THEN <<Head(log).arg>> \o ConvertCalls(Tail(log))
         ELSE ConvertCalls(Tail(log))

\* at every moment the engine has been invoked once for each of the first
\* batch_iter ranges of the plan, in order, with that range; the run returns
\* only after the last range, and returns the statistics
EngineCalledInOrder ==
    /\ (pc \in {"loop", "converted", "except", "done"}) =>
          /\ Len(ConvertCalls(calls)) = batch_iter
          /\ \A k \in 1 .. batch_iter :
                ConvertCalls(calls)[k] = <<batches[k].start_page, batches[k].end_page>>
    /\ pc = "done" =>
          /\ batch_iter = Len(batches)
          /\ result = [raised |-> "", value |-> stats]

\* C9: whatever the outcomes of the batches (success, non-success status,
\* raised error), the engine is invoked exactly once for each range of the
\* plan, in plan order, with that range's (start_page, end_page), and the run
\* always reaches its end and returns the statistics.
C9_EveryBatchAttempted == []EngineCalledInOrder /\ <>(pc = "done")

\* a finished run of several batches in which a batch raised and a later batch
\* was still given to the engine
C9_Witness ==
    /\ pc = "done"
    /\ \E k \in 1 .. Len(engine_log) - 1 :
          /\ engine_log[k].outcome = "RAISE"
          /\ engine_log[k + 1].outcome = "SUCCESS"

\* pages of the ranges the engine converted and exported successfully
RECURSIVE SuccessfulPages(_)
SuccessfulPages(log) ==
    IF log = <<>> THEN 0
    ELSE (IF Head(log).outcome = "SUCCESS"
          THEN Head(log).end_page - Head(log).start_page + 1 ELSE 0)
         + SuccessfulPages(Tail(log))

\* after each batch and at the end, processed_pages is the sum of the pages of
\* the batches that succeeded, and the two counters add up to the number of
\* batches processed
StatsMatchOutcomes ==
    (pc \in {"loop", "done"}) =>
        /\ stats.processed_pages = SuccessfulPages(engine_log)
        /\ stats.successful_batches + stats.failed_batches = Len(engine_log)
        /\ Len(engine_log) = batch_iter

AllSucceeded == \A k \in 1 .. Len(engine_log) : engine_log[k].outcome = "SUCCESS"

\* C10: after each batch and at the end of the run processed_pages equals the
\* sum of (end_page - start_page + 1) over the batches that succeeded and
\* successful_batches + failed_batches equals the number of batches processed;
\* when every batch succeeds, processed_pages equals total_pages and
\* failed_batches is 0.
C10_StatsInvariant ==
    /\ StatsMatchOutcomes
    /\ (pc = "done" /\ AllSucceeded) =>
          /\ stats.processed_pages = total_pages
          /\ stats.failed_batches = 0

\* C12: in one document run the engine is constructed once and its pipeline
\* is initialised exactly once, before the first conversion call; every batch is
\* served by that engine, and the number of conversion calls equals the number
\* of ranges of the plan.
C12_EngineInitialisedOnce ==
    LET ctors == CallsOf("DocumentConverter")
        inits == CallsOf("initialize_pipeline")
        convs == CallsOf("convert")
    IN  /\ Cardinality(ctors) <= 1 /\ Cardinality(inits) <= 1
        /\ (pc \in {"open", "loop", "converted", "except", "done"}) =>
              Cardinality(ctors) = 1 /\ Cardinality(inits) = 1
        /\ \A i \in inits : \E c \in ctors : c < i
        /\ \A k \in convs : \E i \in inits : i < k
        /\ pc = "done" => Cardinality(convs) = Len(batches)

\* a finished run of several batches, one of which raised, on one engine
C12_Witness ==
    /\ pc = "done"
    /\ Cardinality(CallsOf("convert")) >= 2
    /\ Cardinality(CallsOf("initialize_pipeline")) = 1
    /\ \E k \in 1 .. Len(engine_log) : engine_log[k].outcome = "RAISE"

\* the loop holds nothing of the batch it has finished: conv_result and
\* batch_markdown are unbound and gc.collect was called after the batch's
\* conversion call
WorkingSetReleased ==
    /\ conv_result = Unset
    /\ batch_markdown = Unset
    /\ \E g \in CallsOf("gc.collect") : \A k \in CallsOf("convert") : k < g

\* C13: after every batch, whatever its outcome (success, non-success status,
\* raised error), and before the engine is invoked for the next batch, the loop
\* holds no reference to the batch's conversion result or markdown and has
\* called gc.collect.
C13_ReleaseAfterEveryBatch ==
    (pc \in {"loop", "done"} /\ batch_iter >= 1) => WorkingSetReleased

\* the number of batches whose processing is over
Completed == IF pc \in {"converted", "except"} THEN batch_iter - 1 ELSE batch_iter

\* the writes that a crash would leave in the file
FlushedPart == SubSeq(output_file, 1, flushed)

\* the flushed part holds the content of batch k if it succeeded and a marker
\* of batch k if it did not
BlockFlushed(k) ==
    \E j \in 1 .. flushed :
        /\ output_file[j].batch = k
        /\ IF engine_log[k].outcome = "SUCCESS"
           THEN output_file[j].kind = "markdown"
           ELSE output_file[j].kind \in {"FAILED", "ERROR"}

\* C14: at the moment the engine is invoked for batch i+1, while it works on
\* it, and at the end of the run, the flushed part of the sink holds the header
\* and a block for every batch 1..i (content for a successful batch, a marker
\* for a failed one); between batches nothing written is left unflushed.
C14_SinkFlushedAfterEveryBatch ==
    (pc \in {"loop", "converted", "except", "done"}) =>
        /\ flushed >= Len(Header("pdf", total_pages, batch_size, use_smart_batching))
        /\ SubSeq(FlushedPart, 1,
                  Len(Header("pdf", total_pages, batch_size, use_smart_batching)))
              = Header("pdf", total_pages, batch_size, use_smart_batching)
        /\ \A k \in 1 .. Completed : BlockFlushed(k)
        /\ pc \in {"loop", "done"} => flushed = Len(output_file)

\* the engine raised on batch 2 while the marker of the failed batch 1 was
\* already flushed
C14_Witness ==
    /\ pc = "except"
    /\ batch_iter = 2
    /\ engine_log[1].outcome = "FAILURE"
    /\ engine_log[2].outcome = "RAISE"
    /\ BlockFlushed(1)

\* the kinds of the writes of batch k, in the order they were written
RECURSIVE KindsOf(_, _)
KindsOf(file, k) ==
    IF file = <<>> THEN <<>>
    ELSE IF Head(file).batch = k
         THEN <<Head(file).kind>> \o KindsOf(Tail(file), k)
         ELSE KindsOf(Tail(file), k)

SuccessBlock == <<"batch", "markdown", "newlines", "separator">>

ExpectedBlock(k) ==
    LET b == batches[k]
        o == engine_log[k].outcome
    IN  IF o = "SUCCESS"
        THEN <<Write("batch", k, <<b.start_page, b.end_page, b.description>>),
               Write("markdown", k, Markdown(b.start_page, b.end_page)),
               Write("newlines", k, <<>>),
               Write("separator", k, <<>>)>>
        ELSE IF o \in {"FAILURE", "PARTIAL_SUCCESS"}
        THEN <<Write("FAILED", k, o)>>
        ELSE <<Write("ERROR", k, IF o = "RAISE" THEN "Processing error"
                                                 ELSE "export error")>>

\* the header followed by the blocks of batches 1..n
RECURSIVE ExpectedSink(_)
ExpectedSink(n) ==
    IF n = 0 THEN Header("pdf", total_pages, batch_size, use_smart_batching)
    ELSE ExpectedSink(n - 1) \o ExpectedBlock(n)

\* C16: at the end of a run the sink holds, after the header, exactly one
\* block per batch in range order, of the kind that matches the batch's outcome:
\* marker (number, page range, description) and markdown for a success, a FAILED
\* marker with the status for a non-success status, an ERROR marker with the
\* message for a raised error.  In a three-batch run whose second batch returns
\* a failure status the sink holds the content of batches 1 and 3 and a failure
\* marker for batch 2, with successful_batches = 2 and failed_batches = 1.
C16_SinkMatchesOutcomes ==
    pc = "done" =>
        /\ Len(engine_log) = Len(batches)
        /\ output_file = ExpectedSink(Len(batches))
        /\ (/\ Len(batches) = 3
            /\ engine_log[1].outcome = "SUCCESS"
            /\ engine_log[2].outcome = "FAILURE"
            /\ engine_log[3].outcome = "SUCCESS")
           => /\ KindsOf(output_file, 1) = SuccessBlock
              /\ KindsOf(output_file, 2) = <<"FAILED">>
              /\ KindsOf(output_file, 3) = SuccessBlock
              /\ stats.successful_batches = 2
              /\ stats.failed_batches = 1

\* the three-batch run whose second batch returned a failure status
C16_Witness ==
    /\ pc = "done"
    /\ Len(batches) = 3
    /\ engine_log[1].outcome = "SUCCESS"
    /\ engine_log[2].outcome = "FAILURE"
    /\ engine_log[3].outcome = "SUCCESS"
    /\ stats.successful_batches = 2

(***************************************************************************)
(* Properties of load_pdf.                                                 *)
(***************************************************************************)
EstimatorFailed == calc_out # Unset /\ calc_out.raised = "ValueError"

\* C6: when calculate_batch_size fails with insufficient memory inside
\* load_pdf, the error propagates to the caller and the request makes no
\* outline query, no partitioning, no engine initialisation, no conversion call
\* and no storage insert.
C6_InsufficientMemoryAbortsLoad ==
    EstimatorFailed =>
        /\ pc \in {"handler", "done"}
        /\ pc = "done" => (result.raised = "ValueError" /\ result.value = calc_out)
        /\ \A op \in {"inspect_pdf_outline", "analyze_outline_for_batching",
                       "DocumentConverter", "initialize_pipeline", "convert",
                       "insert_one"} : CallsOf(op) = {}
        /\ batches = Unset
        /\ engine_log = <<>>
        /\ documents_collection = <<>>

\* the request ended with the estimator's error
C6_Witness ==
    /\ pc = "done"
    /\ EstimatorFailed
    /\ result.raised = "ValueError"

\* the ledger holds one entry for each batch whose processing is over; entry k
\* carries position k and the fields of the k-th range
LedgerFollowsPlan ==
    /\ Len(processed_batches) = IF pc \in {"converted", "except"}
                                THEN batch_iter - 1 ELSE batch_iter
    /\ \A k \in 1 .. Len(processed_batches) :
          /\ processed_batches[k].batch_number = k
          /\ processed_batches[k].start_page = batches[k].start_page
          /\ processed_batches[k].end_page = batches[k].end_page
          /\ processed_batches[k].description = batches[k].description
    /\ pc \in {"respond", "done"} => Len(processed_batches) = Len(batches)

\* a step keeps every entry the ledger holds
LedgerAppendOnly ==
    \A k \in 1 .. Len(processed_batches) :
        /\ k <= Len(processed_batches')
        /\ processed_batches'[k] = processed_batches[k]

\* C11: the ledger built by load_pdf has exactly one entry per range of the
\* plan, appended in range order, with batch_number equal to its 1-based
\* position and start_page, end_page and description copied from the range; an
\* appended entry is never changed or removed by the processing of later batches.
C11_LedgerInRangeOrder == []LedgerFollowsPlan /\ [][LedgerAppendOnly]_vars

\* a finished request whose ledger holds a failed entry followed by a
\* successful one
C11_Witness ==
    /\ pc = "done"
    /\ result.raised = ""
    /\ \E k \in 1 .. Len(processed_batches) - 1 :
          /\ ~processed_batches[k].success
          /\ processed_batches[k + 1].success

\* the request processed every batch and stored its record
RunCompleted ==
    /\ pc = "done"
    /\ batch_iter = Len(batches)
    /\ documents_collection # <<>>

\* C17: load_pdf returns success = true whenever the run completes, for every
\* combination of batch outcomes, also when every batch failed; the counts of
\* the batches are reported and do not turn the flag to false.
C17_SuccessWhenRunCompletes ==
    RunCompleted =>
        /\ result.raised = ""
        /\ result.value.success = TRUE
        /\ result.value.successful = successful_batches
        /\ result.value.chunk_count = Len(processed_batches)
        /\ successful_batches + failed_batches = Len(processed_batches)

\* a completed request of several batches, all of which failed
C17_Witness ==
    /\ RunCompleted
    /\ Len(processed_batches) >= 2
    /\ successful_batches = 0
    /\ failed_batches = Len(processed_batches)
    /\ result.value.success

\* the number of entries of a ledger whose success flag is true
RECURSIVE SuccessCount(_)
SuccessCount(ledger) ==
    IF ledger = <<>> THEN 0
    ELSE (IF Head(ledger).success THEN 1 ELSE 0) + SuccessCount(Tail(ledger))

\* C18: the record that load_pdf stores is inserted only after all batches
\* have been processed, and in it batch_count = length of batches =
\* successful_batches + failed_batches, successful_batches is the number of
\* ledger entries whose success flag is true, and page_count is the document's
\* total page count.
C18_StoredRecordConsistent ==
    /\ CallsOf("insert_one") # {} =>
          /\ batch_iter = Len(batches)
          /\ Cardinality(CallsOf("convert")) = Len(batches)
          /\ \A i \in CallsOf("insert_one") : \A k \in CallsOf("convert") : k < i
    /\ Len(documents_collection) <= 1
    /\ \A d \in 1 .. Len(documents_collection) :
          LET document == documents_collection[d] IN
          /\ document.batch_count = Len(document.batches)
          /\ document.batch_count = Len(batches)
          /\ document.batch_count = document.successful_batches + document.failed_batches
          /\ document.successful_batches = SuccessCount(document.batches)
          /\ document.page_count = pdf.page_count

\* a stored record of several batches, some successful and some failed
C18_Witness ==
    /\ Len(documents_collection) = 1
    /\ documents_collection[1].batch_count >= 2
    /\ documents_collection[1].successful_batches >= 1
    /\ documents_collection[1].failed_batches >= 1

(***************************************************************************)
(* Properties of concurrent load_pdf requests.                             *)
(***************************************************************************)
\* at most one engine invocation of a request is in progress
OneInvocationAtATime ==
    \A r \in Requests :
        /\ calls[r] \in {0, 1}
        /\ calls[r] = 1 <=> pc[r] = "converting"

\* the ledger and the counters of request r tell of the batches of r's own
\* plan that r has processed, and of nothing else
OwnBatchesOnly(r) ==
    (/\ pc[r] \in {"loop", "converting", "converted", "except", "done"}
     /\ batch_config[r] # Unset) =>
        /\ Len(processed_batches[r]) =
              IF pc[r] \in {"converting", "converted", "except"}
              THEN batch_iter[r] - 1 ELSE batch_iter[r]
        /\ \A k \in 1 .. Len(processed_batches[r]) :
              /\ processed_batches[r][k].batch_number = k
              /\ processed_batches[r][k].start_page = batches[r][k].start_page
              /\ processed_batches[r][k].end_page = batches[r][k].end_page
              /\ processed_batches[r][k].success
                    = (engine_log[r][k].outcome = "SUCCESS")
        /\ successful_batches[r] = SuccessCount(processed_batches[r])
        /\ failed_batches[r] = Len(processed_batches[r]) - successful_batches[r]
        /\ batches[r] = FixedSizeBatches(pdf[r].page_count, batch_size[r])

\* a step that is not a step of request r leaves r's ledger, counters and
\* plan as they are
OthersUntouched ==
    \A r \in Requests :
        pc'[r] = pc[r] =>
            /\ processed_batches'[r] = processed_batches[r]
            /\ successful_batches'[r] = successful_batches[r]
            /\ failed_batches'[r] = failed_batches[r]
            /\ batches'[r] = batches[r]
            /\ batch_iter'[r] = batch_iter[r]

\* C25: when several document runs execute concurrently on the host, no two
\* engine invocations of the same run overlap, and each run's ledger and
\* success/failure counters reflect only that run's own batches: no step of one
\* run changes the ledger, counters or batch plan of another run.
C25_RunsAreIsolated ==
    /\ [](OneInvocationAtATime /\ \A r \in Requests : OwnBatchesOnly(r))
    /\ [][OthersUntouched]_vars

\* both requests are inside the engine at the same time, with different plans,
\* after a failed batch of the first request
C25_Witness ==
    /\ pc["r1"] = "converting" /\ pc["r2"] = "converting"
    /\ batches["r1"] # batches["r2"]
    /\ failed_batches["r1"] = 1
    /\ failed_batches["r2"] = 0

(***************************************************************************)
(* load_pdf against convert_pdf_in_batches.                                *)
(***************************************************************************)
\* C28: given the same page count, outline, maximum batch size, smart
\* batching and the same per-batch engine outcomes, load_pdf and
\* convert_pdf_in_batches compute the same sequence of ranges, invoke the
\* engine with the same page ranges in the same order, and finish with equal
\* successful and failed batch counts.
C28_LoadMatchesConvert ==
    (calc_prev # Unset /\ pc \in {"respond", "done"}) =>
        /\ batch_size = calc_prev.batch_size
        /\ total_pages = calc_prev.total_pages
        /\ batches = calc_prev.batches
        /\ ConvertCalls(calls) = ConvertCalls(calc_prev.calls)
        /\ Len(ConvertCalls(calls)) = Len(batches)
        /\ successful_batches = calc_prev.stats.successful_batches
        /\ failed_batches = calc_prev.stats.failed_batches

\* both functions went through an outline-based plan of several ranges, some
\* successful and some not
C28_Witness ==
    /\ calc_prev # Unset /\ pc = "done"
    /\ result.raised = ""
    /\ Len(batches) >= 2
    /\ batches # FixedSizeBatches(total_pages, batch_size)
    /\ successful_batches >= 1 /\ failed_batches >= 1

=============================================================================
